---- MODULE Spec2Model ----
(***************************************************************************)
(* A model of testflows.asserts: the soft-error collector (errors and its  *)
(* nested softerror scope), the structural diff helper of the evaluator    *)
(* (AssertEval._diff) and the replay of an assertion expression            *)
(* (AssertEval with the values() capture cell).                            *)
(*                                                                         *)
(* Each part has its own specification over the same variables; the        *)
(* variables of the other parts stay at their idle values.                 *)
(***************************************************************************)
EXTENDS Integers, Sequences, FiniteSets, TLC

VARIABLES
    \* ---- soft-error collector (class errors) ----
    errors,     \* errors.errors: the list of collected AssertionError objects
    flags,      \* the four section flags of the collector
    pc,         \* "body" | "raising" | "closed" | "after": where the with-block is
    pending,    \* the exception propagating out of the body (NoExc if none)
    outcome,    \* what reached the caller of the with-block
    history,    \* the statements the body has executed, in order
    line,       \* source line of the next statement of the body
    \* ---- structural diff helper (AssertEval._diff) ----
    dIn,        \* the arguments of one comparison: op, left, right
    dOut,       \* what visit_Compare wraps: the result _diff returned
    \* ---- replay of a failed assertion (AssertEval) ----
    stmt,       \* the tree of the assert statement, as ast.parse gives it
    source,     \* the source lines of the statement
    frame,      \* f_locals and f_globals of the frame that runs the statement
    heap,       \* the objects the frame refers to, and the evaluator's records
    atFailure,  \* frame and heap as the failed check left them
    epc,        \* "start" | "passed" | "test raised" | "failed" | "diagnosed" | "raised"
    thrown,     \* the exception the check or error() raised, when it raised one
    \* ---- the text of a diagnostic (error) ----
    rIn,        \* the call: what is rendered, and from what
    rOut,       \* what the call gave
    \* ---- helpers (raises, retries) ----
    guard,      \* a raises(...) scope: its classes, the body's exception, the outcome
    loop,       \* a retries(...) loop: the object's fields, the clock, the outcome
    snap,       \* snapshot(...): the snapshot files, the loaded module, the calls made
    calls       \* calls of a function wrapped by retry(...): the shared object, the callers

collectorVars == <<errors, flags, pc, pending, outcome, history, line>>

diffVars == <<dIn, dOut>>

evalVars == <<stmt, source, frame, heap, atFailure, epc, thrown>>

reportVars == <<rIn, rOut>>

helperVars == <<guard, loop, snap, calls>>

vars ==
    <<errors, flags, pc, pending, outcome, history, line, dIn, dOut,
      stmt, source, frame, heap, atFailure, epc, thrown, rIn, rOut, guard, loop, snap, calls>>

\* The variables of the other parts, for each part.
notCollector == <<diffVars, evalVars, reportVars, helperVars>>

notDiff == <<collectorVars, evalVars, reportVars, helperVars>>

notEval == <<collectorVars, diffVars, reportVars, helperVars>>

notReport == <<collectorVars, diffVars, evalVars, helperVars>>

notHelpers == <<collectorVars, diffVars, evalVars, reportVars>>

\* ------------------------------------------------------------------------
\* Bounds
\* ------------------------------------------------------------------------
\* The number of statements a collector body executes at most.
MaxStatements == 3

\* ------------------------------------------------------------------------
\* Idle values: the state of a part that a specification does not run
\* ------------------------------------------------------------------------
IdleDiff == dIn = <<>> /\ dOut = <<>>

IdleEval ==
    /\ stmt = <<>>
    /\ source = <<>>
    /\ frame = <<>>
    /\ heap = <<>>
    /\ atFailure = <<>>
    /\ epc = "idle"
    /\ thrown = <<>>

IdleReport == rIn = <<>> /\ rOut = <<>>

IdleHelpers == guard = <<>> /\ loop = <<>> /\ snap = <<>> /\ calls = <<>>

\* ------------------------------------------------------------------------
\* Exceptions and their payloads
\* ------------------------------------------------------------------------
None == "None"

\* Descriptions used as the second operand of an assert statement.
Descs == {"boo", "boo2"}

NoPayload == <<>>

\* A plain description: assert cond, "boo"
StrPayload(d) == <<[kind |-> "str", desc |-> d, lineno |-> 0]>>

\* The object built by error.__init__: its description and the line of the
\* frame it was built for (frame_info.lineno).
error_init(desc, lineno) == [kind |-> "error", desc |-> desc, lineno |-> lineno]

\* The collector itself as the payload of the aggregate: AssertionError(self).
SelfPayload == <<[kind |-> "errors", desc |-> None, lineno |-> 0]>>

\* An exception carries its type, its args and the line its traceback ends
\* at (inspect.getinnerframes(exc_tb)[-1].lineno).
NoExc == [type |-> "None", args |-> <<>>, tb |-> 0]

AssertionError(args, n) == [type |-> "AssertionError", args |-> args, tb |-> n]

ValueError(n) == [type |-> "ValueError", args |-> <<>>, tb |-> n]

\* The payloads an assert statement on line n can raise with:
\* assert False / assert False, "boo" / assert False, error()
Payloads(n) ==
    {NoPayload} \cup {StrPayload(d) : d \in Descs} \cup {<<error_init(None, n)>>}

\* str(exc_val) of an AssertionError that has one argument.
str_exc(exc) == exc.args[1].desc

\* ------------------------------------------------------------------------
\* Rendering (error.generate_message and errors.__str__)
\* ------------------------------------------------------------------------
\* A rendered message is the sequence of its sections; a section of a
\* diagnostic is identified by the line the diagnostic was built for, and the
\* description section carries the capitalised description.
Section(name, text, n) == [section |-> name, text |-> text, lineno |-> n]

\* desc[0].capitalize() + desc[1:]
Capitalize(d) ==
    CASE d = "boo" -> "Boo"
      [] d = "boo2" -> "Boo2"
      [] OTHER -> d

generate_expression_section(err, fl) ==
    IF fl.expression_section
    THEN <<Section("The following assertion was not satisfied", "", err.lineno)>>
    ELSE <<>>

generate_description_section(err, fl) ==
    IF fl.description_section /\ err.desc # None
    THEN <<Section("Description", Capitalize(err.desc), err.lineno)>>
    ELSE <<>>

generate_values_section(err, fl) ==
    IF fl.values_section
    THEN <<Section("Assertion values", "", err.lineno)>>
    ELSE <<>>

generate_where_section(err, fl) ==
    IF fl.where_section
    THEN <<Section("Where", "", err.lineno)>>
    ELSE <<>>

generate_message(err, fl) ==
    <<Section("Oops! Assertion failed", "", err.lineno)>>
        \o generate_expression_section(err, fl)
        \o generate_description_section(err, fl)
        \o generate_values_section(err, fl)
        \o generate_where_section(err, fl)

Separator == Section("as well as the following assertion", "", 0)

RECURSIVE join(_, _)
\* sep.join(msgs)
join(sep, msgs) ==
    IF msgs = <<>> THEN <<>>
    ELSE IF Len(msgs) = 1 THEN msgs[1]
    ELSE msgs[1] \o <<sep>> \o join(sep, Tail(msgs))

\* errors.__str__: every collected error rendered with the collector's
\* flags, joined by the separator.
errors_str(errs, fl) ==
    join(Separator, [i \in 1..Len(errs) |-> generate_message(errs[i].args[1], fl)])

\* ------------------------------------------------------------------------
\* The two __exit__ handlers
\* ------------------------------------------------------------------------
\* softerror.__exit__ with the failure inserted at the head of the list
\* instead of appended.
softerror_exit_insert_first(errs, exc) ==
    IF exc.type = "AssertionError"
    THEN IF exc.args # <<>> /\ exc.args[1].kind = "error"
         THEN [errors |-> errs, exc |-> exc, suppress |-> FALSE]
         ELSE LET desc == IF exc.args # <<>> THEN str_exc(exc) ELSE None
                  wrapped == AssertionError(<<error_init(desc, exc.tb)>>, exc.tb)
              IN [errors |-> <<wrapped>> \o errs, exc |-> wrapped, suppress |-> TRUE]
    ELSE [errors |-> errs, exc |-> exc, suppress |-> FALSE]

\* errors.softerror.__exit__(exc_type, exc_val, exc_tb) on the list errs.
\* suppress is the truth of the return value.
softerror_exit(errs, exc) ==
    IF exc.type = "AssertionError"
    THEN IF exc.args # <<>> /\ exc.args[1].kind = "error"
         THEN [errors |-> errs, exc |-> exc, suppress |-> FALSE]
         ELSE LET desc == IF exc.args # <<>> THEN str_exc(exc) ELSE None
                  wrapped == AssertionError(<<error_init(desc, exc.tb)>>, exc.tb)
              IN [errors |-> Append(errs, wrapped), exc |-> wrapped, suppress |-> TRUE]
    ELSE [errors |-> errs, exc |-> exc, suppress |-> FALSE]

\* errors.__exit__(exc_type, exc_val, exc_tb) on the list errs. raise is
\* TRUE when the handler raises AssertionError(self); otherwise it returns
\* None and exc (with its args as the handler left them) keeps propagating.
errors_exit(errs, exc) ==
    IF exc.type = "AssertionError"
    THEN IF exc.args # <<>> /\ exc.args[1].kind = "error"
         THEN [errors |-> errs, exc |-> exc, raise |-> FALSE]
         ELSE LET desc == IF exc.args # <<>> THEN str_exc(exc) ELSE None
                  wrapped == AssertionError(<<error_init(desc, exc.tb)>>, exc.tb)
                  errs2 == IF errs # <<>> THEN Append(errs, wrapped) ELSE errs
              IN [errors |-> errs2, exc |-> wrapped, raise |-> errs2 # <<>>]
    ELSE IF exc.type # "None"
    THEN [errors |-> errs, exc |-> exc, raise |-> FALSE]
    ELSE [errors |-> errs, exc |-> exc, raise |-> errs # <<>>]

\* ------------------------------------------------------------------------
\* The collector: with errors() as soft: <body>
\* ------------------------------------------------------------------------
DefaultFlags ==
    [expression_section |-> TRUE, description_section |-> TRUE,
     values_section |-> TRUE, where_section |-> TRUE]

\* errors.__init__: an empty list; the tests' snap() also switches the where
\* section off.
InitCollector ==
    /\ IdleDiff
    /\ IdleEval
    /\ IdleReport
    /\ IdleHelpers
    /\ errors = <<>>
    /\ flags \in {[DefaultFlags EXCEPT !.where_section = w] : w \in BOOLEAN}
    /\ pc = "body"
    /\ pending = NoExc
    /\ outcome = [how |-> "running", exc |-> NoExc]
    /\ history = <<>>
    /\ line = 1

\* One "with soft.error(): <statement>" of the body whose statement ends
\* with exc (NoExc when it raises nothing): softerror.__exit__ runs, and what
\* it does not suppress propagates out of the body.
SoftScope(exc) ==
    /\ pc = "body"
    /\ line <= MaxStatements
    /\ LET r == softerror_exit(errors, exc)
       IN /\ errors' = r.errors
          /\ IF exc.type = "None" \/ r.suppress
             THEN pc' = "body" /\ pending' = NoExc
             ELSE pc' = "raising" /\ pending' = r.exc
    /\ history' = Append(history, [ev |-> "soft", exc |-> exc, lineno |-> line])
    /\ line' = line + 1
    /\ UNCHANGED <<flags, outcome>>
    /\ UNCHANGED notCollector

SoftPass == SoftScope(NoExc)

SoftFail == \E p \in Payloads(line) : SoftScope(AssertionError(p, line))

SoftOther == SoftScope(ValueError(line))

\* One statement directly in the body of the collector ending with exc.
Direct(exc) ==
    /\ pc = "body"
    /\ line <= MaxStatements
    /\ IF exc.type = "None"
       THEN pc' = "body" /\ pending' = NoExc
       ELSE pc' = "raising" /\ pending' = exc
    /\ history' = Append(history, [ev |-> "direct", exc |-> exc, lineno |-> line])
    /\ line' = line + 1
    /\ UNCHANGED <<errors, flags, outcome>>
    /\ UNCHANGED notCollector

DirectPass == Direct(NoExc)

DirectFail == \E p \in Payloads(line) : Direct(AssertionError(p, line))

DirectOther == Direct(ValueError(line))

\* errors.__exit__ with the exception exc leaving the body.
Exit(exc) ==
    LET r == errors_exit(errors, exc)
    IN /\ errors' = r.errors
       /\ outcome' =
            IF r.raise
            THEN [how |-> "raised", exc |-> AssertionError(SelfPayload, 0)]
            ELSE IF exc.type # "None"
            THEN [how |-> "propagated", exc |-> r.exc]
            ELSE [how |-> "silent", exc |-> NoExc]
       /\ pc' = "closed"
       /\ UNCHANGED <<flags, pending, history, line>>
       /\ UNCHANGED notCollector

\* The body ran to its end.
ExitNormal == pc = "body" /\ Exit(NoExc)

\* An exception left the body.
ExitRaising == pc = "raising" /\ Exit(pending)

\* Bound: the soft scopes entered after the collector's with-block.
MaxLate == 1

\* "with soft.error(): <statement>" after the with-block of the collector
\* has exited, on the scope errors.error() gives then: softerror.__exit__
\* runs on the same list.
LateSoftScope ==
    /\ pc \in {"closed", "after"}
    /\ Len(SelectSeq(history, LAMBDA h : h.ev = "late")) < MaxLate
    /\ \E exc \in {NoExc, ValueError(line)}
                    \cup {AssertionError(p, line) : p \in Payloads(line)} :
         LET r == softerror_exit(errors, exc)
         IN /\ errors' = r.errors
            /\ history' = Append(history, [ev |-> "late", exc |-> exc, lineno |-> line,
                                           suppressed |-> r.suppress])
    /\ pc' = "after"
    /\ UNCHANGED <<flags, pending, outcome, line>>
    /\ UNCHANGED notCollector

NextCollector ==
    \/ LateSoftScope
    \/ SoftPass
    \/ SoftFail
    \/ SoftOther
    \/ DirectPass
    \/ DirectFail
    \/ DirectOther
    \/ ExitNormal
    \/ ExitRaising

SpecCollector == InitCollector /\ [][NextCollector]_vars

Spec == SpecCollector

IdleCollector ==
    /\ errors = <<>>
    /\ flags = DefaultFlags
    /\ pc = "idle"
    /\ pending = NoExc
    /\ outcome = [how |-> "running", exc |-> NoExc]
    /\ history = <<>>
    /\ line = 0

\* ------------------------------------------------------------------------
\* Properties of the collector
\* ------------------------------------------------------------------------
Last(seq) == seq[Len(seq)]

\* The soft scopes of the body whose statement raised an AssertionError.
FailedSoft ==
    SelectSeq(history, LAMBDA h : h.ev = "soft" /\ h.exc.type = "AssertionError")

\* The diagnostic of the failure recorded as h: the error object the failure
\* carries, or else one built from its description for its line.
DiagnosticOf(h) ==
    IF h.exc.args # <<>> /\ h.exc.args[1].kind = "error"
    THEN h.exc.args[1]
    ELSE error_init(IF h.exc.args # <<>> THEN h.exc.args[1].desc ELSE None, h.lineno)

\* The joined message of the diagnostics of the failures hs, in order.
JoinedMessage(hs) ==
    join(Separator, [i \in 1..Len(hs) |-> generate_message(DiagnosticOf(hs[i]), flags)])

Aggregate == [how |-> "raised", exc |-> AssertionError(SelfPayload, 0)]

\* C1: when the body of the collector ends without an exception leaving it,
\* the exit raises the aggregate AssertionError if and only if a soft scope
\* failed; its message is the rendered diagnostics of the failed soft scopes,
\* in the order they failed, joined by the separator; with no failure the
\* exit is silent.
C1_AggregateIffSoftFailed ==
    (pc = "closed" /\ pending = NoExc) =>
        /\ (outcome = Aggregate) <=> (FailedSoft # <<>>)
        /\ (FailedSoft # <<>>) => errors_str(errors, flags) = JoinedMessage(FailedSoft)
        /\ (FailedSoft = <<>>) => outcome.how = "silent"

\* C1 witness: soft scopes 1 and 3 failed, 2 passed, the body ended, and the
\* aggregate holds exactly two diagnostics, of lines 1 and 3 in that order.
C1_Witness ==
    /\ pc = "closed" /\ pending = NoExc /\ outcome = Aggregate
    /\ Len(history) = 3
    /\ \A i \in 1..3 : history[i].ev = "soft"
    /\ history[1].exc.type = "AssertionError"
    /\ history[2].exc.type = "None"
    /\ history[3].exc.type = "AssertionError"
    /\ Len(errors) = 2
    /\ errors[1].args[1].lineno = 1 /\ errors[2].args[1].lineno = 3
    /\ Len(SelectSeq(errors_str(errors, flags), LAMBDA m : m = Separator)) = 1

\* C2: whatever happened in the body, if a soft failure was collected then
\* the aggregate AssertionError reaches the caller and its message holds the
\* diagnostic of every collected failure.
C2_NoCollectedFailureDropped ==
    (pc = "closed" /\ errors # <<>>) =>
        /\ outcome = Aggregate
        /\ \A i \in 1..Len(errors) :
              \E k \in 1..Len(errors_str(errors, flags)) :
                  errors_str(errors, flags)[k]
                      = Section("Oops! Assertion failed", "", errors[i].args[1].lineno)

\* C3: an AssertionError raised inside a soft scope, whatever its payload, is
\* appended to the collector's list with its diagnostic (the error object it
\* already carries is reused as it is) and is suppressed, so the body goes on.
C3_SoftFailureCollectedAndSuppressed ==
    (history # <<>> /\ Last(history).ev = "soft"
        /\ Last(history).exc.type = "AssertionError") =>
        /\ pc # "raising"
        /\ pending = NoExc
        /\ errors # <<>>
        /\ Last(errors).args = <<DiagnosticOf(Last(history))>>

\* C4: an AssertionError raised directly in the body is not suppressed, no
\* later statement of the body runs, and a failure with its diagnostic
\* reaches the caller: the aggregate of the earlier soft diagnostics followed
\* by its own when soft failures were collected before it, and otherwise the
\* failure itself.
C4_DirectFailureReachesCaller ==
    (pc = "closed" /\ history # <<>> /\ Last(history).ev = "direct"
        /\ Last(history).exc.type = "AssertionError") =>
        IF FailedSoft # <<>>
        THEN /\ outcome = Aggregate
             /\ errors_str(errors, flags)
                    = JoinedMessage(Append(FailedSoft, Last(history)))
        ELSE /\ outcome.how = "propagated"
             /\ outcome.exc.args = <<DiagnosticOf(Last(history))>>

\* ------------------------------------------------------------------------
\* Python values
\* ------------------------------------------------------------------------
\* A value is its type and its content, the content always a sequence: the
\* number of an int, the characters of a str, the items (values) of a list or
\* tuple, the sorted items of a set, the (key, value) pairs of a dict in key
\* order.
IntVal(n) == [t |-> "int", v |-> <<n>>]

BoolVal(b) == [t |-> "bool", v |-> <<b>>]

StrVal(cs) == [t |-> "str", v |-> cs]

ListVal(xs) == [t |-> "list", v |-> xs]

TupleVal(xs) == [t |-> "tuple", v |-> xs]

\* An instance of Point = namedtuple("Point", "x y"), a subclass of tuple.
PointVal(xs) == [t |-> "Point", v |-> xs]

NoneVal == [t |-> "NoneType", v |-> <<>>]

\* The int values of a sequence of integers.
IntVals(ns) == [i \in 1..Len(ns) |-> IntVal(ns[i])]

RECURSIVE SortedSeq(_)
\* The items of a set of integers in increasing order.
SortedSeq(S) ==
    IF S = {} THEN <<>>
    ELSE LET m == CHOOSE x \in S : \A y \in S : x <= y
         IN <<m>> \o SortedSeq(S \ {m})

\* A set of ints, its items in the order pprint prints them.
SetVal(S) == [t |-> "set", v |-> IntVals(SortedSeq(S))]

\* f is a function from a finite set of integer keys to integers.
DictVal(f) ==
    [t |-> "dict",
     v |-> LET ks == SortedSeq(DOMAIN f)
           IN [i \in 1..Len(ks) |-> <<IntVal(ks[i]), IntVal(f[ks[i]])>>]]

\* type(x).__mro__
Mro(t) ==
    CASE t = "bool" -> {"bool", "int", "object"}
      [] t = "Point" -> {"Point", "tuple", "object"}
      [] OTHER -> {t, "object"}

\* isinstance(x, types) for a set of types
isinstance(x, types) == Mro(x.t) \cap types # {}

\* The built-in type whose __eq__ compares the value.
EqFamily(t) ==
    CASE t = "bool" -> "int"
      [] t = "Point" -> "tuple"
      [] OTHER -> t

\* int(x) of an int or a bool
int_of(x) == IF x.t = "bool" THEN (IF x.v[1] THEN 1 ELSE 0) ELSE x.v[1]

\* left == right
py_eq(left, right) ==
    /\ EqFamily(left.t) = EqFamily(right.t)
    /\ IF EqFamily(left.t) = "int" THEN int_of(left) = int_of(right)
       ELSE left.v = right.v

\* An exception raised instead of a value returned.
Raised(type) == [t |-> "Raised", v |-> <<type>>]

\* An object whose __repr__ raises ValueError (and whose __eq__ is the
\* default one).
BadVal == [t |-> "Bad", v |-> <<>>]

\* repr(x) raises: x is such an object or a container that holds one.
RECURSIVE repr_fails(_)
repr_fails(x) ==
    CASE x.t = "Bad" -> TRUE
      [] x.t \in {"list", "tuple", "set", "Point"} ->
           \E i \in DOMAIN x.v : repr_fails(x.v[i])
      [] OTHER -> FALSE

\* ------------------------------------------------------------------------
\* Printable forms
\* ------------------------------------------------------------------------
\* A line of text is a sequence of one-character strings (a multi-character
\* token stands for its characters).
ItoA(n) ==
    CASE n = 0 -> "0" [] n = 1 -> "1" [] n = 2 -> "2" [] n = 3 -> "3"
      [] n = 4 -> "4" [] n = 5 -> "5" [] n = 6 -> "6" [] n = 7 -> "7"
      [] n = 8 -> "8" [] n = 9 -> "9" [] OTHER -> "N"

RECURSIVE CommaSep(_)
\* ", ".join(items) for items that are lines
CommaSep(items) ==
    IF items = <<>> THEN <<>>
    ELSE IF Len(items) = 1 THEN items[1]
    ELSE items[1] \o <<",", " ">> \o CommaSep(Tail(items))

RECURSIVE Repr(_)
\* repr(x): one line of text
Repr(x) ==
    CASE x.t = "int" -> <<ItoA(x.v[1])>>
      [] x.t = "bool" -> IF x.v[1] THEN <<"True">> ELSE <<"False">>
      [] x.t = "NoneType" -> <<"None">>
      [] x.t = "str" -> <<"'">> \o x.v \o <<"'">>
      [] x.t = "list" ->
           <<"[">> \o CommaSep([i \in 1..Len(x.v) |-> Repr(x.v[i])]) \o <<"]">>
      [] x.t = "tuple" ->
           IF Len(x.v) = 1 THEN <<"(">> \o Repr(x.v[1]) \o <<",", ")">>
           ELSE <<"(">> \o CommaSep([i \in 1..Len(x.v) |-> Repr(x.v[i])]) \o <<")">>
      [] x.t = "Point" ->
           <<"Point", "(", "x", "=">> \o Repr(x.v[1]) \o <<",", " ", "y", "=">>
               \o Repr(x.v[2]) \o <<")">>
      [] x.t = "set" ->
           IF x.v = <<>> THEN <<"set", "(", ")">>
           ELSE <<"{">> \o CommaSep([i \in 1..Len(x.v) |-> Repr(x.v[i])]) \o <<"}">>
      [] x.t = "dict" ->
           <<"{">>
               \o CommaSep([i \in 1..Len(x.v) |->
                     Repr(x.v[i][1]) \o <<":", " ">> \o Repr(x.v[i][2])])
               \o <<"}">>
      [] OTHER -> <<"<", x.t, " ", "object", ">">>

\* pprint.pformat(x): the values of the model are short enough (width 80)
\* for the one-line form, which is repr(x).
pformat(x) == Repr(x)

RECURSIVE splitlines(_)
\* str.splitlines() of a text without its line ends kept: a line ends at each
\* "\n", and a text that ends with "\n" has no empty last line.
splitlines(cs) ==
    IF cs = <<>> THEN <<>>
    ELSE LET ends == {i \in 1..Len(cs) : cs[i] = "\n"}
         IN IF ends = {} THEN <<cs>>
            ELSE LET e == CHOOSE i \in ends : \A j \in ends : i <= j
                 IN <<SubSeq(cs, 1, e - 1)>> \o splitlines(SubSeq(cs, e + 1, Len(cs)))

\* ------------------------------------------------------------------------
\* difflib.unified_diff(a, b, n=0, lineterm="")
\* ------------------------------------------------------------------------
\* The length of the longest common prefix of the line lists a and b.
CommonPrefix(a, b) ==
    LET lim == IF Len(a) < Len(b) THEN Len(a) ELSE Len(b)
        ok == {k \in 0..lim : \A i \in 1..k : a[i] = b[i]}
    IN CHOOSE k \in ok : \A j \in ok : j <= k

\* The length of the longest common suffix that does not reach into the
\* first p lines.
CommonSuffix(a, b, p) ==
    LET lim == (IF Len(a) < Len(b) THEN Len(a) ELSE Len(b)) - p
        ok == {k \in 0..lim : \A i \in 1..k : a[Len(a) - k + i] = b[Len(b) - k + i]}
    IN CHOOSE k \in ok : \A j \in ok : j <= k

\* difflib._format_range_unified(start, stop)
format_range_unified(start, stop) ==
    LET beginning == start + 1
        length == stop - start
    IN IF length = 1 THEN <<ItoA(beginning)>>
       ELSE <<ItoA(IF length = 0 THEN beginning - 1 ELSE beginning), ",", ItoA(length)>>

\* No line is produced for equal inputs. For unequal inputs: the two file
\* header lines, then the changed region between the common prefix and the
\* common suffix as a hunk (difflib splits the region further when lines
\* inside it match; whether any line is produced does not depend on that).
unified_diff(a, b) ==
    IF a = b THEN <<>>
    ELSE LET p == CommonPrefix(a, b)
             q == CommonSuffix(a, b, p)
             amid == SubSeq(a, p + 1, Len(a) - q)
             bmid == SubSeq(b, p + 1, Len(b) - q)
         IN << <<"-", "-", "-", " ">>, <<"+", "+", "+", " ">> >>
              \o << <<"@", "@", " ", "-">> \o format_range_unified(p, Len(a) - q)
                     \o <<" ", "+">> \o format_range_unified(p, Len(b) - q)
                     \o <<" ", "@", "@">> >>
              \o [i \in 1..Len(amid) |-> <<"-">> \o amid[i]]
              \o [i \in 1..Len(bmid) |-> <<"+">> \o bmid[i]]

\* itertools.islice(lines, 2, None)
islice2(lines) == IF Len(lines) <= 2 THEN <<>> ELSE SubSeq(lines, 3, Len(lines))

\* ------------------------------------------------------------------------
\* AssertEval._diff
\* ------------------------------------------------------------------------
diff_types == {"str", "list", "tuple", "dict", "set"}

\* AssertEval.DiffResult(result, diff); diff is the "\n".join of its lines,
\* kept as the list of lines (it is the empty string when there is no line).
DiffResult(result, diff) == [t |-> "DiffResult", result |-> result, diff |-> diff]

\* _diff with the type gate left out: every false equality gets a diff.
diff_no_type_gate(op, result, left, right) ==
    IF op # "Eq" \/ result.v[1] THEN result
    ELSE LET left_repr == IF isinstance(left, {"str"}) THEN splitlines(left.v)
                          ELSE splitlines(pformat(left))
             right_repr == IF isinstance(right, {"str"}) THEN splitlines(right.v)
                           ELSE splitlines(pformat(right))
         IN DiffResult(result, islice2(unified_diff(left_repr, right_repr)))

\* _diff(op, result, left, right); result is the bool the comparison gave.
diff(op, result, left, right) ==
    IF op # "Eq" \/ result.v[1] THEN result
    ELSE IF /\ isinstance(left, diff_types)
            /\ isinstance(right, diff_types)
            /\ isinstance(right, {left.t})
    THEN IF ~isinstance(left, {"str"}) /\ (repr_fails(left) \/ repr_fails(right))
         THEN Raised("ValueError")
         ELSE LET left_repr == IF isinstance(left, {"str"}) THEN splitlines(left.v)
                               ELSE splitlines(pformat(left))
                  right_repr == IF isinstance(left, {"str"}) THEN splitlines(right.v)
                                ELSE splitlines(pformat(right))
              IN DiffResult(result, islice2(unified_diff(left_repr, right_repr)))
    ELSE result

\* _compare_ops[op](left, right) for the equality operators.
compare_op(op, left, right) ==
    IF op = "Eq" THEN BoolVal(py_eq(left, right)) ELSE BoolVal(~py_eq(left, right))

\* ------------------------------------------------------------------------
\* The diff helper on one comparison
\* ------------------------------------------------------------------------
\* Bounds of the operands.
MaxStrLen == 2
MaxItems == 3

Chars == {"a", "\n"}
Items == {1, 2, 3}
Keys == {1, 2}

SeqsUpTo(S, n) == UNION {[1..k -> S] : k \in 0..n}

DiffOperands ==
    {IntVal(n) : n \in Items}
        \cup {StrVal(cs) : cs \in SeqsUpTo(Chars, MaxStrLen)}
        \cup {ListVal(IntVals(xs)) : xs \in SeqsUpTo(Items, MaxItems)}
        \cup {TupleVal(IntVals(xs)) : xs \in SeqsUpTo(Items, MaxItems)}
        \cup {PointVal(IntVals(xs)) : xs \in [1..2 -> Items]}
        \cup {SetVal(S) : S \in SUBSET Items}
        \cup {DictVal(f) : f \in UNION {[K -> Items] : K \in SUBSET Keys}}

InitDiff ==
    /\ IdleCollector
    /\ IdleEval
    /\ IdleReport
    /\ IdleHelpers
    /\ dIn \in {<<op, l, r>> : op \in {"Eq", "NotEq"}, l \in DiffOperands, r \in DiffOperands}
    /\ dOut = <<>>

\* The tail of one round of visit_Compare: the comparison, then _diff on its
\* result.
Compare ==
    /\ dIn # <<>>
    /\ dOut = <<>>
    /\ LET op == dIn[1]
           left == dIn[2]
           right == dIn[3]
           result == compare_op(op, left, right)
       IN dOut' = <<diff(op, result, left, right)>>
    /\ UNCHANGED dIn
    /\ UNCHANGED notDiff

NextDiff == Compare

SpecDiff == InitDiff /\ [][NextDiff]_vars

\* ------------------------------------------------------------------------
\* Properties of the diff helper
\* ------------------------------------------------------------------------
\* The lines _diff compares: the lines of a str, the pretty-printed form of
\* any other value.
PrintableLines(x) == IF x.t = "str" THEN splitlines(x.v) ELSE <<Repr(x)>>

BothDiffable(left, right) ==
    /\ Mro(left.t) \cap {"str", "list", "tuple", "dict", "set"} # {}
    /\ Mro(right.t) \cap {"str", "list", "tuple", "dict", "set"} # {}

\* C10 as stated: the result is returned unchanged unless the operator is ==,
\* the result is false and both operands are diffable and each is an instance
\* of the other's type; exactly then a diff is attached, and it is non-empty.
C10_DiffAttachedNonEmpty ==
    dOut # <<>> =>
        LET op == dIn[1]
            left == dIn[2]
            right == dIn[3]
            result == BoolVal((op = "Eq") = (EqFamily(left.t) = EqFamily(right.t)
                                              /\ left.v = right.v))
            gate == /\ op = "Eq"
                    /\ ~result.v[1]
                    /\ BothDiffable(left, right)
                    /\ left.t \in Mro(right.t)
                    /\ right.t \in Mro(left.t)
        IN IF gate
           THEN /\ dOut[1].t = "DiffResult"
                /\ dOut[1].result = result
                /\ dOut[1].diff # <<>>
           ELSE dOut[1] = result

\* C10 amended: the gate is that the right operand is an instance of the left
\* operand's type; the diff attached is non-empty exactly when the lines of
\* the two printable forms differ (not so for two strs that differ only in
\* line ends, such as 'a' and 'a\n').
C10_DiffAttachedWhenRightIsInstance ==
    dOut # <<>> =>
        LET op == dIn[1]
            left == dIn[2]
            right == dIn[3]
            result == BoolVal((op = "Eq") = (EqFamily(left.t) = EqFamily(right.t)
                                              /\ left.v = right.v))
            gate == /\ op = "Eq"
                    /\ ~result.v[1]
                    /\ BothDiffable(left, right)
                    /\ left.t \in Mro(right.t)
        IN IF gate
           THEN /\ dOut[1].t = "DiffResult"
                /\ dOut[1].result = result
                /\ (dOut[1].diff # <<>>)
                      <=> (PrintableLines(left) # PrintableLines(right))
           ELSE dOut[1] = result

\* C10 witness: [1, 2, 3] == [1, 1, 3] has been compared and carries a
\* non-empty diff.
C10_Witness ==
    /\ dIn = <<"Eq", ListVal(IntVals(<<1, 2, 3>>)), ListVal(IntVals(<<1, 1, 3>>))>>
    /\ dOut # <<>>
    /\ dOut[1].t = "DiffResult"
    /\ dOut[1].diff # <<>>

\* ------------------------------------------------------------------------
\* Syntax trees (module ast) of the assert statements under diagnosis
\* ------------------------------------------------------------------------
\* A node is a record with its kind, its fields, and its position: lineno
\* (from 1) and col_offset (from 0) in the expression text. The constructors
\* leave the position at (0, 0); Layout sets it.
Num(n) == [kind |-> "Num", n |-> n, lineno |-> 0, col |-> 0]

\* True, False or None
NameConstant(value) == [kind |-> "NameConstant", value |-> value, lineno |-> 0, col |-> 0]

Name(id) == [kind |-> "Name", id |-> id, lineno |-> 0, col |-> 0]

keyword(arg, value) == [arg |-> arg, value |-> value]

\* func is the name of the callee (an ast.Name), args the positional
\* arguments (Starred among them), keywords the keyword arguments.
Call(func, args, keywords) ==
    [kind |-> "Call", func |-> func, args |-> args, keywords |-> keywords,
     lineno |-> 0, col |-> 0]

Starred(value) == [kind |-> "Starred", value |-> value, lineno |-> 0, col |-> 0]

List(elts) == [kind |-> "List", elts |-> elts, lineno |-> 0, col |-> 0]

\* value[index] with a literal index
Subscript(value, index) ==
    [kind |-> "Subscript", value |-> value, index |-> index, lineno |-> 0, col |-> 0]

\* op is "And" or "Or"; paren tells whether the source has the operation in
\* parentheses (the position of the node is then that of its first operand,
\* after the bracket).
BoolOp(op, values) ==
    [kind |-> "BoolOp", op |-> op, values |-> values, paren |-> FALSE,
     lineno |-> 0, col |-> 0]

ParenBoolOp(op, values) == [BoolOp(op, values) EXCEPT !.paren = TRUE]

\* left op right; tight tells whether the source has the operator without
\* spaces around it (5**1). opcol is the column at which the source has the
\* operator's token.
BinOp(left, op, right) ==
    [kind |-> "BinOp", left |-> left, op |-> op, right |-> right, tight |-> FALSE,
     opcol |-> 0, lineno |-> 0, col |-> 0]

TightBinOp(left, op, right) == [BinOp(left, op, right) EXCEPT !.tight = TRUE]

\* -operand ("USub") and not operand ("Not"); paren tells whether the
\* source has the operation in parentheses.
UnaryOp(op, operand) ==
    [kind |-> "UnaryOp", op |-> op, operand |-> operand, paren |-> FALSE,
     lineno |-> 0, col |-> 0]

ParenUnaryOp(op, operand) == [UnaryOp(op, operand) EXCEPT !.paren = TRUE]

\* (body if test else orelse), written in parentheses
IfExp(test, body, orelse) ==
    [kind |-> "IfExp", test |-> test, body |-> body, orelse |-> orelse,
     lineno |-> 0, col |-> 0]

\* left ops[1] comparators[1] ops[2] comparators[2] ...
CompareNode(left, ops, comparators) ==
    [kind |-> "Compare", left |-> left, ops |-> ops, comparators |-> comparators,
     lineno |-> 0, col |-> 0]

\* assert test, error()
AssertStmt(test) == [kind |-> "Assert", test |-> test, lineno |-> 0, col |-> 0]

\* AssertEval._simple: the node kinds whose value the parent does not record.
simple ==
    {"Num", "Str", "NameConstant", "Attribute", "Call", "BinOp", "UnaryOp", "IfExp",
     "BoolOp", "List", "Tuple", "Set", "Dict", "Starred", "Compare"}

\* AssertEval._op_symbols, as characters
op_symbols(op) ==
    CASE op = "And" -> <<"a", "n", "d">>
      [] op = "Or" -> <<"o", "r">>
      [] op = "Eq" -> <<"=", "=">>
      [] op = "NotEq" -> <<"!", "=">>
      [] op = "Is" -> <<"i", "s">>
      [] op = "Lt" -> <<"<">>
      [] op = "Add" -> <<"+">>
      [] op = "Sub" -> <<"-">>
      [] op = "Mult" -> <<"*">>
      [] op = "Pow" -> <<"*", "*">>

\* ------------------------------------------------------------------------
\* Source text of a statement
\* ------------------------------------------------------------------------
\* The characters of an identifier or keyword.
Chars_of(word) ==
    CASE word = "x" -> <<"x">>
      [] word = "y" -> <<"y">>
      [] word = "z" -> <<"z">>
      [] word = "foo" -> <<"f", "o", "o">>
      [] word = "that" -> <<"t", "h", "a", "t">>
      [] word = "assert" -> <<"a", "s", "s", "e", "r", "t">>
      [] word = "error" -> <<"e", "r", "r", "o", "r">>
      [] word = "True" -> <<"T", "r", "u", "e">>
      [] word = "False" -> <<"F", "a", "l", "s", "e">>
      [] word = "None" -> <<"N", "o", "n", "e">>
      [] word = "l" -> <<"l">>
      [] word = "if" -> <<"i", "f">>
      [] word = "else" -> <<"e", "l", "s", "e">>
      [] word = "not" -> <<"n", "o", "t">>
      [] word = "len" -> <<"l", "e", "n">>
      [] word = "nope" -> <<"n", "o", "p", "e">>

RECURSIVE Layout(_, _)
RECURSIVE LayoutList(_, _, _)
RECURSIVE LayoutKeywords(_, _)
RECURSIVE LayoutComparators(_, _, _)

\* The nodes ns written one after the other from column col with sep between
\* them: the text and the nodes with their positions.
LayoutList(ns, col, sep) ==
    IF ns = <<>> THEN [text |-> <<>>, nodes |-> <<>>]
    ELSE LET first == Layout(ns[1], col)
         IN IF Len(ns) = 1 THEN [text |-> first.text, nodes |-> <<first.node>>]
            ELSE LET rest == LayoutList(Tail(ns), col + Len(first.text) + Len(sep), sep)
                 IN [text |-> first.text \o sep \o rest.text,
                     nodes |-> <<first.node>> \o rest.nodes]

\* The keyword arguments ks written arg=value from column col, ", " between
\* them.
LayoutKeywords(ks, col) ==
    IF ks = <<>> THEN [text |-> <<>>, keywords |-> <<>>]
    ELSE LET name == Chars_of(ks[1].arg) \o <<"=">>
             v == Layout(ks[1].value, col + Len(name))
             first == [text |-> name \o v.text, keyword |-> keyword(ks[1].arg, v.node)]
         IN IF Len(ks) = 1 THEN [text |-> first.text, keywords |-> <<first.keyword>>]
            ELSE LET rest == LayoutKeywords(Tail(ks), col + Len(first.text) + 2)
                 IN [text |-> first.text \o <<",", " ">> \o rest.text,
                     keywords |-> <<first.keyword>> \o rest.keywords]

\* " op1 c1 op2 c2 ..." written from column col: the rest of a comparison.
LayoutComparators(ops, comparators, col) ==
    IF ops = <<>> THEN [text |-> <<>>, nodes |-> <<>>]
    ELSE LET sym == <<" ">> \o op_symbols(ops[1]) \o <<" ">>
             c == Layout(comparators[1], col + Len(sym))
             rest == LayoutComparators(Tail(ops), Tail(comparators),
                                       col + Len(sym) + Len(c.text))
         IN [text |-> sym \o c.text \o rest.text, nodes |-> <<c.node>> \o rest.nodes]

\* The text of node n written from column col on line 1, and n with the
\* positions ast.parse gives to it and to the nodes below it.
Layout(n, col) ==
    LET at == [n EXCEPT !.lineno = 1, !.col = col]
    IN CASE n.kind = "Num" -> [text |-> <<ItoA(n.n)>>, node |-> at]
         [] n.kind = "NameConstant" ->
              [text |-> Chars_of(Repr(n.value)[1]), node |-> at]
         [] n.kind = "Name" -> [text |-> Chars_of(n.id), node |-> at]
         [] n.kind = "Starred" ->
              LET v == Layout(n.value, col + 1)
              IN [text |-> <<"*">> \o v.text, node |-> [at EXCEPT !.value = v.node]]
         [] n.kind = "List" ->
              LET es == LayoutList(n.elts, col + 1, <<",", " ">>)
              IN [text |-> <<"[">> \o es.text \o <<"]">>,
                  node |-> [at EXCEPT !.elts = es.nodes]]
         [] n.kind = "Subscript" ->
              LET v == Layout(n.value, col)
              IN [text |-> v.text \o <<"[", ItoA(n.index), "]">>,
                  node |-> [at EXCEPT !.value = v.node]]
         [] n.kind = "Call" ->
              LET inside == col + Len(Chars_of(n.func)) + 1
                  pos == LayoutList(n.args, inside, <<",", " ">>)
                  between == IF n.args # <<>> /\ n.keywords # <<>> THEN <<",", " ">> ELSE <<>>
                  kws == LayoutKeywords(n.keywords, inside + Len(pos.text) + Len(between))
              IN [text |-> Chars_of(n.func) \o <<"(">> \o pos.text \o between
                              \o kws.text \o <<")">>,
                  node |-> [at EXCEPT !.args = pos.nodes, !.keywords = kws.keywords]]
         [] n.kind = "BoolOp" ->
              LET sep == <<" ">> \o op_symbols(n.op) \o <<" ">>
              IN IF n.paren
                 THEN LET vals == LayoutList(n.values, col + 1, sep)
                      IN [text |-> <<"(">> \o vals.text \o <<")">>,
                          node |-> [at EXCEPT !.col = col + 1, !.values = vals.nodes]]
                 ELSE LET vals == LayoutList(n.values, col, sep)
                      IN [text |-> vals.text, node |-> [at EXCEPT !.values = vals.nodes]]
         [] n.kind = "BinOp" ->
              LET sep == IF n.tight THEN op_symbols(n.op)
                         ELSE <<" ">> \o op_symbols(n.op) \o <<" ">>
                  l == Layout(n.left, col)
                  r == Layout(n.right, col + Len(l.text) + Len(sep))
              IN [text |-> l.text \o sep \o r.text,
                  node |-> [at EXCEPT !.left = l.node, !.right = r.node,
                                      !.opcol = col + Len(l.text)
                                                + (IF n.tight THEN 0 ELSE 1)]]
         [] n.kind = "UnaryOp" ->
              LET sym == IF n.op = "Not" THEN Chars_of("not") \o <<" ">> ELSE <<"-">>
                  open == IF n.paren THEN 1 ELSE 0
                  o == Layout(n.operand, col + open + Len(sym))
              IN [text |-> (IF n.paren THEN <<"(">> ELSE <<>>) \o sym \o o.text
                              \o (IF n.paren THEN <<")">> ELSE <<>>),
                  node |-> [at EXCEPT !.col = col + open, !.operand = o.node]]
         [] n.kind = "IfExp" ->
              LET b == Layout(n.body, col + 1)
                  t == Layout(n.test, col + 1 + Len(b.text) + 4)
                  e == Layout(n.orelse, col + 1 + Len(b.text) + 4 + Len(t.text) + 6)
              IN [text |-> <<"(">> \o b.text \o <<" ">> \o Chars_of("if") \o <<" ">>
                              \o t.text \o <<" ">> \o Chars_of("else") \o <<" ">>
                              \o e.text \o <<")">>,
                  node |-> [at EXCEPT !.col = col + 1, !.test = t.node, !.body = b.node,
                                      !.orelse = e.node]]
         [] n.kind = "Compare" ->
              LET l == Layout(n.left, col)
                  rest == LayoutComparators(n.ops, n.comparators, col + Len(l.text))
              IN [text |-> l.text \o rest.text,
                  node |-> [at EXCEPT !.left = l.node, !.comparators = rest.nodes]]
         [] n.kind = "Assert" ->
              LET t == Layout(n.test, col + 7)
              IN [text |-> Chars_of("assert") \o <<" ">> \o t.text \o <<",", " ">>
                              \o Chars_of("error") \o <<"(", ")">>,
                  node |-> [at EXCEPT !.test = t.node]]

\* ------------------------------------------------------------------------
\* Objects of the failing frame
\* ------------------------------------------------------------------------
\* def foo(*args, **kwargs): vs.append((args, kwargs)); return args
\* (the functions of the tests' Suite 'func', which log their arguments in
\* the caller's list vs).
FunctionVal(name) == [t |-> "function", v |-> <<name>>]

\* with values() as that: the cell; its stack is part of the heap.
CellVal == [t |-> "values", v |-> <<>>]

\* A reference to the caller's list vs.
ListRef == [t |-> "listref", v |-> <<"vs">>]

\* AssertEval.FuncResult(result)
FuncResult(result) == [t |-> "FuncResult", v |-> <<result>>]

\* The object visit_Starred returns: ast.Starred(result, ctx).
StarredObj(result) == [t |-> "Starred", v |-> <<result>>]

\* bool(x)
truthy(x) ==
    CASE x.t = "int" -> x.v[1] # 0
      [] x.t = "bool" -> x.v[1]
      [] x.t = "NoneType" -> FALSE
      [] x.t \in {"list", "tuple", "set", "dict", "str"} -> x.v # <<>>
      [] OTHER -> TRUE

\* left is right: the small ints, True, False and None are single objects;
\* a container built by the expression is a new object.
py_is(left, right) ==
    /\ left.t = right.t
    /\ left.t \in {"int", "bool", "NoneType"}
    /\ left.v = right.v

\* left < right: numbers by value, lists and tuples item by item; TypeError
\* between a number and anything else.
RECURSIVE py_lt(_, _)
py_lt(left, right) ==
    IF EqFamily(left.t) = "int" /\ EqFamily(right.t) = "int"
    THEN BoolVal(int_of(left) < int_of(right))
    ELSE IF EqFamily(left.t) = EqFamily(right.t) /\ EqFamily(left.t) \in {"list", "tuple"}
    THEN IF right.v = <<>> THEN BoolVal(FALSE)
         ELSE IF left.v = <<>> THEN BoolVal(TRUE)
         ELSE IF py_eq(left.v[1], right.v[1])
         THEN py_lt([left EXCEPT !.v = Tail(@)], [right EXCEPT !.v = Tail(@)])
         ELSE py_lt(left.v[1], right.v[1])
    ELSE Raised("TypeError")

\* _compare_ops[op](left, right)
compare_ops(op, left, right) ==
    CASE op = "Is" -> BoolVal(py_is(left, right))
      [] op = "Lt" -> py_lt(left, right)
      [] OTHER -> compare_op(op, left, right)

\* The heap the evaluation works on, and what the evaluation leaves behind:
\*   vs     the caller's list that foo appends its arguments to
\*   stack  values.stack of the cell
\*   cells  every values.__call__ made: its argument and what it returned
\*   nodes  AssertEval.nodes, the evaluation records
\*   yielded  what the cell calls of the statement produced, in order, in
\*            the check and in the replay
\*   sites  for every entry of yielded, the column of the call that
\*          produced it
EmptyHeap ==
    [vs |-> <<>>, stack |-> <<>>, cells |-> <<>>, nodes |-> <<>>, yielded |-> <<>>,
     sites |-> <<>>]

\* _unary_ops[op](operand)
unary_op(op, operand) ==
    IF op = "Not" THEN BoolVal(~truthy(operand))
    ELSE IF EqFamily(operand.t) = "int" THEN IntVal(0 - int_of(operand))
    ELSE Raised("TypeError")

\* values.__call__(x) with the cell's argument x
values_call(x, st) ==
    [val |-> x,
     st |-> [st EXCEPT !.stack = Append(@, x),
                       !.cells = Append(@, [arg |-> x, ret |-> x]),
                       !.yielded = Append(@, x)]]

\* foo(*args, **kwargs)
foo_call(args, kwargs, st) ==
    [val |-> TupleVal(args),
     st |-> [st EXCEPT !.vs = Append(@, [args |-> args, kwargs |-> kwargs])]]

\* len(obj)
len_call(args, st) ==
    [val |-> IF Len(args) = 1 /\ args[1].t \in {"list", "tuple", "set", "dict", "str", "Point"}
             THEN IntVal(Len(args[1].v)) ELSE Raised("TypeError"),
     st |-> st]

\* func(*args, **kwargs) for the callables of the frame: the cell, foo,
\* len, and zero = lambda *args: 0, one = lambda *args: 1.
call_func(func, args, kwargs, st) ==
    IF func.t = "values" THEN values_call(args[1], st)
    ELSE IF func.t # "function" THEN [val |-> Raised("TypeError"), st |-> st]
    ELSE IF func.v[1] = "foo" THEN foo_call(args, kwargs, st)
    ELSE IF func.v[1] = "len" THEN len_call(args, st)
    ELSE IF func.v[1] = "zero" THEN [val |-> IntVal(0), st |-> st]
    ELSE IF func.v[1] = "one" THEN [val |-> IntVal(1), st |-> st]
    ELSE [val |-> NoneVal, st |-> st]

\* The module builtins, as far as the statements use it.
builtins == [k \in {"len"} |-> FunctionVal("len")]

\* The value of a name in a running frame: the local and global bindings
\* (env), then the built-ins; NameError when it is bound nowhere.
load_name(env, id) ==
    IF id \in DOMAIN env THEN env[id]
    ELSE IF id \in DOMAIN builtins THEN builtins[id]
    ELSE Raised("NameError")

\* _binary_ops[op](left, right) on ints
binary_op(op, left, right) ==
    CASE op = "Add" -> IntVal(left.v[1] + right.v[1])
      [] op = "Sub" -> IntVal(left.v[1] - right.v[1])
      [] op = "Mult" -> IntVal(left.v[1] * right.v[1])
      [] op = "Pow" -> IntVal(left.v[1] ^ right.v[1])

\* ------------------------------------------------------------------------
\* The interpreter: what Python computes for an expression
\* ------------------------------------------------------------------------
RECURSIVE Eval(_, _, _)
RECURSIVE EvalArgs(_, _, _)
RECURSIVE EvalKeywords(_, _, _)
RECURSIVE EvalList(_, _, _)
RECURSIVE EvalBoolOp(_, _, _, _)
RECURSIVE EvalComparators(_, _, _, _, _)

\* The positional arguments of a call, left to right, a starred argument
\* unpacked in place.
EvalArgs(args, env, st) ==
    IF args = <<>> THEN [vals |-> <<>>, st |-> st]
    ELSE LET first == IF args[1].kind = "Starred"
                      THEN LET r == Eval(args[1].value, env, st)
                           IN [vals |-> r.val.v, st |-> r.st]
                      ELSE LET r == Eval(args[1], env, st)
                           IN [vals |-> <<r.val>>, st |-> r.st]
             rest == EvalArgs(Tail(args), env, first.st)
         IN [vals |-> first.vals \o rest.vals, st |-> rest.st]

\* The keyword arguments of a call, left to right: (name, value) pairs.
EvalKeywords(ks, env, st) ==
    IF ks = <<>> THEN [vals |-> <<>>, st |-> st]
    ELSE LET r == Eval(ks[1].value, env, st)
             rest == EvalKeywords(Tail(ks), env, r.st)
         IN [vals |-> <<<<ks[1].arg, r.val>>>> \o rest.vals, st |-> rest.st]

\* The elements of a display, left to right.
EvalList(elts, env, st) ==
    IF elts = <<>> THEN [vals |-> <<>>, st |-> st]
    ELSE LET r == Eval(elts[1], env, st)
             rest == EvalList(Tail(elts), env, r.st)
         IN [vals |-> <<r.val>> \o rest.vals, st |-> rest.st]

\* a and b and ... / a or b or ...: the operands are evaluated until one
\* decides the result.
EvalBoolOp(op, values, env, st) ==
    LET r == Eval(values[1], env, st)
        decided == IF op = "And" THEN ~truthy(r.val) ELSE truthy(r.val)
    IN IF r.val.t = "Raised" \/ Len(values) = 1 \/ decided THEN r
       ELSE EvalBoolOp(op, Tail(values), env, r.st)

\* left op1 c1 op2 c2 ...: (left op1 c1) and (c1 op2 c2) and ..., every
\* operand evaluated once, the first pair that is false decides.
EvalComparators(left, ops, comparators, env, st) ==
    LET r == Eval(comparators[1], env, st)
        result == compare_ops(ops[1], left, r.val)
    IN IF r.val.t = "Raised" THEN r
       ELSE IF result.t = "Raised" \/ Len(ops) = 1 \/ ~truthy(result)
       THEN [val |-> result, st |-> r.st]
       ELSE EvalComparators(r.val, Tail(ops), Tail(comparators), env, r.st)

\* value[index]: IndexError when a list or tuple has no such element,
\* TypeError when the value is neither.
subscript(value, index) ==
    IF value.t \notin {"list", "tuple"} THEN Raised("TypeError")
    ELSE IF index + 1 \in DOMAIN value.v THEN value.v[index + 1]
    ELSE Raised("IndexError")

\* The value of expression n with the names bound as in env, on heap st.
Eval(n, env, st) ==
    CASE n.kind = "Num" -> [val |-> IntVal(n.n), st |-> st]
      [] n.kind = "NameConstant" -> [val |-> n.value, st |-> st]
      [] n.kind = "Name" -> [val |-> env[n.id], st |-> st]
      [] n.kind = "List" ->
           LET r == EvalList(n.elts, env, st)
           IN [val |-> ListVal(r.vals), st |-> r.st]
      [] n.kind = "Subscript" ->
           LET r == Eval(n.value, env, st)
           IN IF r.val.t = "Raised" THEN r
              ELSE [val |-> subscript(r.val, n.index), st |-> r.st]
      [] n.kind = "Call" ->
           LET pos == EvalArgs(n.args, env, st)
               kws == EvalKeywords(n.keywords, env, pos.st)
               func == load_name(env, n.func)
               r == call_func(func, pos.vals, kws.vals, kws.st)
           IN IF func.t = "Raised" THEN [val |-> func, st |-> st]
              ELSE IF func.t = "values"
              THEN [r EXCEPT !.st.sites = Append(@, n.col)]
              ELSE r
      [] n.kind = "UnaryOp" ->
           LET r == Eval(n.operand, env, st)
           IN IF r.val.t = "Raised" THEN r
              ELSE [val |-> unary_op(n.op, r.val), st |-> r.st]
      [] n.kind = "IfExp" ->
           LET t == Eval(n.test, env, st)
           IN IF t.val.t = "Raised" THEN t
              ELSE IF truthy(t.val) THEN Eval(n.body, env, t.st)
              ELSE Eval(n.orelse, env, t.st)
      [] n.kind = "BoolOp" -> EvalBoolOp(n.op, n.values, env, st)
      [] n.kind = "BinOp" ->
           LET l == Eval(n.left, env, st)
               r == Eval(n.right, env, l.st)
           IN [val |-> binary_op(n.op, l.val, r.val), st |-> r.st]
      [] n.kind = "Compare" ->
           LET l == Eval(n.left, env, st)
           IN IF l.val.t = "Raised" THEN l
              ELSE EvalComparators(l.val, n.ops, n.comparators, env, l.st)

\* ------------------------------------------------------------------------
\* AssertEval: replay of the failed assertion
\* ------------------------------------------------------------------------
\* A frame: the names bound in the function that failed.
Frame(f_locals, f_globals) == [f_locals |-> f_locals, f_globals |-> f_globals]

\* d[key] = value on a dict
setitem(d, key, value) ==
    [k \in DOMAIN d \cup {key} |-> IF k = key THEN value ELSE d[k]]

\* AssertEval.__init__ with f_locals bound to the frame's own dict instead
\* of a copy of it.
AssertEval_init_shared(fr) ==
    LET f_locals == setitem(fr.f_locals, "error", FunctionVal("error"))
    IN [f_globals |-> fr.f_globals, f_locals |-> f_locals,
        expression |-> <<>>,
        frame |-> [fr EXCEPT !.f_locals = f_locals]]

\* AssertEval.__init__(frame, frame_info): the evaluator's scopes, and the
\* frame as the constructor leaves it.
AssertEval_init(fr) ==
    [f_globals |-> fr.f_globals,
     f_locals |-> setitem(fr.f_locals, "error", FunctionVal("error")),
     expression |-> <<>>,
     frame |-> fr]

\* An evaluation record (value, node): the node is kept by its kind and
\* position.
Record(value, kind, lineno, col) ==
    [value |-> value, kind |-> kind, lineno |-> lineno, col |-> col]

\* self.nodes.append((value, node))
nodes_append(st, value, node) ==
    [st EXCEPT !.nodes = Append(@, Record(value, node.kind, node.lineno, node.col))]

\* line.rstrip(chars)
RECURSIVE rstrip(_, _)
rstrip(text, chars) ==
    IF text # <<>> /\ text[Len(text)] \in chars
    THEN rstrip(SubSeq(text, 1, Len(text) - 1), chars)
    ELSE text

\* The offsets at which sub occurs in text.
Occurrences(text, sub) ==
    {i \in 0..(Len(text) - Len(sub)) : SubSeq(text, i + 1, i + Len(sub)) = sub}

\* line.find(sub): the lowest offset, -1 when there is none.
find(text, sub) ==
    IF Occurrences(text, sub) = {} THEN -1
    ELSE CHOOSE i \in Occurrences(text, sub) : \A j \in Occurrences(text, sub) : i <= j

\* line.rfind(sub): the highest offset, -1 when there is none.
rfind(text, sub) ==
    IF Occurrences(text, sub) = {} THEN -1
    ELSE CHOOSE i \in Occurrences(text, sub) : \A j \in Occurrences(text, sub) : i >= j

\* The loop of _find_operator taking the first occurrence of the symbol in
\* a line instead of the last.
RECURSIVE find_first_in_lines(_, _, _)
find_first_in_lines(lines, k, op_sym) ==
    LET idx == find(lines[k], op_sym)
    IN IF idx >= 0 \/ k = 1 THEN [lineno |-> k, col |-> idx]
       ELSE find_first_in_lines(lines, k - 1, op_sym)

\* The loop of _find_operator over the lines in reverse, from line k.
RECURSIVE find_in_lines(_, _, _)
find_in_lines(lines, k, op_sym) ==
    LET idx == rfind(lines[k], op_sym)
    IN IF idx >= 0 \/ k = 1 THEN [lineno |-> k, col |-> idx]
       ELSE find_in_lines(lines, k - 1, op_sym)

\* _find_operator(op_type, lineno, col_offset) on the lines of the
\* statement.
find_operator(expression, op_type, lineno, col_offset) ==
    LET head == SubSeq(expression, 1, lineno)
        cut == [head EXCEPT ![lineno] =
                  rstrip(SubSeq(@, 1, col_offset + 1), {"(", "{", "["})]
    IN find_in_lines(cut, lineno, op_symbols(op_type))

\* _boolean_ops[op](left, right)
boolean_op(op, left, right) ==
    IF op = "And" THEN (IF truthy(left) THEN right ELSE left)
    ELSE (IF truthy(left) THEN left ELSE right)

\* The cell branch of visit_Call: func.stack.pop(0), None when the stack is
\* empty.
stack_pop(stack) ==
    IF stack # <<>> THEN [result |-> Head(stack), stack |-> Tail(stack)]
    ELSE [result |-> NoneVal, stack |-> stack]

RECURSIVE visit(_, _, _)
RECURSIVE visit_Compare_rest(_, _, _, _, _)
RECURSIVE visit_operands(_, _, _)
RECURSIVE visit_keywords(_, _, _)
RECURSIVE visit_BoolOp_rest(_, _, _, _, _)

\* dict.update: the names of f_locals over those of f_globals.
merged_scope(f_globals, f_locals) ==
    [k \in DOMAIN f_globals \cup DOMAIN f_locals |->
        IF k \in DOMAIN f_locals THEN f_locals[k] ELSE f_globals[k]]

\* generic_visit(node): the node is compiled and evaluated by the
\* interpreter in the merged scope; a statement is executed there (in a
\* copy of the scopes) and gives None.
generic_visit(node, ev, st) ==
    IF node.kind \in {"Assign", "FunctionDef"} THEN [val |-> NoneVal, st |-> st]
    ELSE Eval(node, merged_scope(ev.f_globals, ev.f_locals), st)

\* visit_Expr(node) on a statement that is not in an assert: _is_assert is
\* not set.
visit_Expr(node, ev, st) == [val |-> Raised("RuntimeError"), st |-> st]

\* The loop "for e in ...: v = self.visit(e); record unless simple" that
\* visit_Call has for its arguments and visit_List for its elements.
visit_operands(ns, ev, st) ==
    IF ns = <<>> THEN [vals |-> <<>>, st |-> st]
    ELSE LET r == visit(ns[1], ev, st)
             st1 == IF ns[1].kind \notin simple
                    THEN nodes_append(r.st, r.val, ns[1]) ELSE r.st
             rest == visit_operands(Tail(ns), ev, st1)
         IN [vals |-> <<r.val>> \o rest.vals, st |-> rest.st]

\* The keyword loop of visit_Call.
visit_keywords(ks, ev, st) ==
    IF ks = <<>> THEN [vals |-> <<>>, st |-> st]
    ELSE LET r == visit(ks[1].value, ev, st)
             st1 == IF ks[1].value.kind \notin simple
                    THEN nodes_append(r.st, r.val, ks[1].value) ELSE r.st
             rest == visit_keywords(Tail(ks), ev, st1)
         IN [vals |-> <<<<ks[1].arg, r.val>>>> \o rest.vals, st |-> rest.st]

\* The callee of visit_Call(node) for a name: f_locals, then f_globals, then
\* getattr(builtins, name), which raises AttributeError for a name the
\* module does not have; NameError when the attribute is false.
callee(name, ev) ==
    IF name \in DOMAIN ev.f_locals THEN ev.f_locals[name]
    ELSE IF name \in DOMAIN ev.f_globals THEN ev.f_globals[name]
    ELSE IF name \notin DOMAIN builtins THEN Raised("AttributeError")
    ELSE IF truthy(builtins[name]) THEN builtins[name]
    ELSE Raised("NameError")

\* visit_Call(node)
visit_Call(node, ev, st) ==
    LET name == node.func
        func == callee(name, ev)
    IN IF func.t = "Raised" THEN [val |-> func, st |-> st]
       ELSE IF func.t = "values"
       THEN LET p == stack_pop(st.stack)
                st1 == [st EXCEPT !.stack = p.stack, !.yielded = Append(@, p.result),
                                  !.sites = Append(@, node.col)]
            IN [val |-> p.result, st |-> nodes_append(st1, FuncResult(p.result), node)]
       ELSE LET pos == visit_operands(node.args, ev, st)
                trailing == pos.vals # <<>> /\ pos.vals[Len(pos.vals)].t = "Starred"
                starred == IF trailing THEN pos.vals[Len(pos.vals)].v[1].v ELSE <<>>
                args == IF trailing THEN SubSeq(pos.vals, 1, Len(pos.vals) - 1)
                        ELSE pos.vals
                kws == visit_keywords(node.keywords, ev, pos.st)
                r == call_func(func, args \o starred, kws.vals, kws.st)
            IN [val |-> r.val, st |-> nodes_append(r.st, FuncResult(r.val), node)]

\* visit_Starred(node)
visit_Starred(node, ev, st) ==
    LET r == visit(node.value, ev, st)
    IN [val |-> StarredObj(r.val), st |-> r.st]

\* visit_List(node)
visit_List(node, ev, st) ==
    LET r == visit_operands(node.elts, ev, st)
        result == ListVal(r.vals)
    IN [val |-> result, st |-> nodes_append(r.st, FuncResult(result), node)]

\* The loop of visit_BoolOp leaving out the operands that come after the
\* one that decides the result, as the interpreter does.
visit_BoolOp_rest_short_circuit(node, values, left, ev, st) ==
    IF values = <<>> \/ (IF node.op = "And" THEN ~truthy(left) ELSE truthy(left))
    THEN [val |-> left, st |-> st]
    ELSE LET value == values[1]
             r == visit(value, ev, st)
             st1 == IF value.kind \notin simple
                    THEN nodes_append(r.st, r.val, value) ELSE r.st
             result == boolean_op(node.op, left, r.val)
             at == find_operator(ev.expression, node.op, value.lineno, value.col)
             st2 == [st1 EXCEPT !.nodes =
                       Append(@, Record(FuncResult(result), node.op, at.lineno, at.col))]
         IN IF r.val.t = "Raised" THEN r
            ELSE visit_BoolOp_rest(node, Tail(values), result, ev, st2)

\* The loop of visit_BoolOp over node.values[1:], left being the result so
\* far.
visit_BoolOp_rest(node, values, left, ev, st) ==
    IF values = <<>> THEN [val |-> left, st |-> st]
    ELSE LET value == values[1]
             r == visit(value, ev, st)
             st1 == IF value.kind \notin simple
                    THEN nodes_append(r.st, r.val, value) ELSE r.st
             result == boolean_op(node.op, left, r.val)
             at == find_operator(ev.expression, node.op, value.lineno, value.col)
             st2 == [st1 EXCEPT !.nodes =
                       Append(@, Record(FuncResult(result), node.op, at.lineno, at.col))]
         IN IF r.val.t = "Raised" THEN r
            ELSE visit_BoolOp_rest(node, Tail(values), result, ev, st2)

\* visit_BoolOp(node)
visit_BoolOp(node, ev, st) ==
    LET l == visit(node.values[1], ev, st)
        st1 == IF node.values[1].kind \notin simple
               THEN nodes_append(l.st, l.val, node.values[1]) ELSE l.st
    IN IF l.val.t = "Raised" THEN l
       ELSE visit_BoolOp_rest(node, Tail(node.values), l.val, ev, st1)

\* The loop of visit_Compare over zip(node.ops, node.comparators): result
\* is the value of the left operand before the first round and the result
\* of the round before afterwards.
visit_Compare_rest(ops, comparators, result, ev, st) ==
    IF ops = <<>> \/ comparators = <<>> THEN [val |-> result, st |-> st]
    ELSE LET op == ops[1]
             comparator == comparators[1]
             r == visit(comparator, ev, st)
             left == result
             res == compare_ops(op, left, r.val)
             st2 == IF comparator.kind \notin simple
                    THEN nodes_append(r.st, r.val, comparator) ELSE r.st
             at == find_operator(ev.expression, op, comparator.lineno, comparator.col)
             d == diff(op, res, left, r.val)
         IN IF r.val.t = "Raised" THEN r
            ELSE IF res.t = "Raised" THEN [val |-> res, st |-> r.st]
            ELSE IF d.t = "Raised" THEN [val |-> d, st |-> st2]
            ELSE visit_Compare_rest(Tail(ops), Tail(comparators), res, ev,
                     [st2 EXCEPT !.nodes =
                        Append(@, Record(FuncResult(d), op, at.lineno, at.col))])

\* visit_Compare(node)
visit_Compare(node, ev, st) ==
    LET l == visit(node.left, ev, st)
        st1 == IF node.left.kind \notin simple
               THEN nodes_append(l.st, l.val, node.left) ELSE l.st
    IN IF l.val.t = "Raised" THEN l
       ELSE visit_Compare_rest(node.ops, node.comparators, l.val, ev, st1)

\* visit_BinOp(node)
visit_BinOp(node, ev, st) ==
    LET l == visit(node.left, ev, st)
        st1 == IF node.left.kind \notin simple
               THEN nodes_append(l.st, l.val, node.left) ELSE l.st
        r == visit(node.right, ev, st1)
        st2 == IF node.right.kind \notin simple
               THEN nodes_append(r.st, r.val, node.right) ELSE r.st
        result == binary_op(node.op, l.val, r.val)
        at == find_operator(ev.expression, node.op, node.right.lineno, node.right.col)
    IN [val |-> result,
        st |-> [st2 EXCEPT !.nodes =
                  Append(@, Record(FuncResult(result), node.op, at.lineno, at.col))]]

\* visit_UnaryOp(node)
visit_UnaryOp(node, ev, st) ==
    LET o == visit(node.operand, ev, st)
        st1 == IF node.operand.kind \notin simple
               THEN nodes_append(o.st, o.val, node.operand) ELSE o.st
        result == unary_op(node.op, o.val)
    IN IF o.val.t = "Raised" THEN o
       ELSE IF result.t = "Raised" THEN [val |-> result, st |-> st1]
       ELSE [val |-> result, st |-> nodes_append(st1, FuncResult(result), node)]

\* visit_IfExp(node): the body, then the test, then orelse.
visit_IfExp(node, ev, st) ==
    LET body == visit(node.body, ev, st)
        st1 == IF node.body.kind \notin simple
               THEN nodes_append(body.st, body.val, node.body) ELSE body.st
        test == visit(node.test, ev, st1)
        st2 == IF node.test.kind \notin simple
               THEN nodes_append(test.st, test.val, node.test) ELSE test.st
        orelse == visit(node.orelse, ev, st2)
        st3 == IF node.orelse.kind \notin simple
               THEN nodes_append(orelse.st, orelse.val, node.orelse) ELSE orelse.st
        result == IF truthy(test.val) THEN body.val ELSE orelse.val
    IN IF body.val.t = "Raised" THEN body
       ELSE IF test.val.t = "Raised" THEN test
       ELSE IF orelse.val.t = "Raised" THEN orelse
       ELSE [val |-> result, st |-> nodes_append(st3, FuncResult(result), node)]

\* visit_Assert(node)
visit_Assert(node, ev, st) ==
    LET r == visit(node.test, ev, st)
        result == BoolVal(truthy(r.val))
    IN IF r.val.t = "Raised" THEN r
       ELSE [val |-> result, st |-> nodes_append(r.st, result, node)]

\* NodeVisitor.visit(node): the visitor of the node's kind, generic_visit
\* when the class has none.
visit(node, ev, st) ==
    CASE node.kind = "Assert" -> visit_Assert(node, ev, st)
      [] node.kind = "Compare" -> visit_Compare(node, ev, st)
      [] node.kind = "Call" -> visit_Call(node, ev, st)
      [] node.kind = "Starred" -> visit_Starred(node, ev, st)
      [] node.kind = "BoolOp" -> visit_BoolOp(node, ev, st)
      [] node.kind = "BinOp" -> visit_BinOp(node, ev, st)
      [] node.kind = "UnaryOp" -> visit_UnaryOp(node, ev, st)
      [] node.kind = "IfExp" -> visit_IfExp(node, ev, st)
      [] node.kind = "Expr" -> visit_Expr(node, ev, st)
      [] node.kind = "List" -> visit_List(node, ev, st)
      [] OTHER -> generic_visit(node, ev, st)

\* AssertEval.eval() on a statement whose source lines and tree are known:
\* the nodes it returns and the heap it leaves.
AssertEval_eval(ev, expression, tree, st) ==
    visit(tree, [ev EXCEPT !.expression = expression], st)

\* ------------------------------------------------------------------------
\* One assert statement: the check, then error() when the check fails
\* ------------------------------------------------------------------------
\* Bounds of the statements.
MaxOperands == 3
MaxArgs == 2
MaxChain == 3
MaxCompare == 2

\* The values the local x can have.
XValues == {0, 1}

\* The frame of the tests' functions: foo and vs are globals, the cell is
\* bound by "with values() as that", x is a local.
TestFrame(x) ==
    Frame([k \in {"x", "that"} |-> IF k = "x" THEN IntVal(x) ELSE CellVal],
          [k \in {"foo", "vs"} |-> IF k = "foo" THEN FunctionVal("foo") ELSE ListRef])

\* foo(arg) and that(arg)
Foo(arg) == Call("foo", <<arg>>, <<>>)
That(arg) == Call("that", <<arg>>, <<>>)

\* The operands of the boolean operations.
BoolOperands ==
    <<Num(0), Num(1), Name("x"), That(Num(0)), That(Num(1)), Foo(Num(0)),
      Subscript(That(Foo(Num(0))), 0)>>

\* The operands of the comparisons.
CompareOperands ==
    <<Num(0), Num(1), Name("x"), That(Num(0)), That(Num(1)), That(Foo(Num(1))),
      Foo(Num(1)), Subscript(Foo(Num(0)), 0), Subscript(That(Foo(Num(1))), 0)>>

\* The operands and the operators of the chained comparisons.
ChainedOperands == <<Num(0), Num(1), Num(2), Name("x")>>

ChainedOps == {"Lt", "Eq"}

\* The frames of the statements that call len or nope: len is a built-in;
\* where says which scopes of the frame bind the name len too.
CalleeFrame(x, where) ==
    Frame([k \in {"x", "that"} \cup (IF where \in {"local", "both"} THEN {"len"} ELSE {})
             |-> CASE k = "x" -> IntVal(x)
                   [] k = "that" -> CellVal
                   [] k = "len" -> FunctionVal("zero")],
          [k \in {"foo", "vs"} \cup (IF where \in {"global", "both"} THEN {"len"} ELSE {})
             |-> CASE k = "foo" -> FunctionVal("foo")
                   [] k = "vs" -> ListRef
                   [] k = "len" -> FunctionVal("one")])

\* The names called and the argument of the call.
CalleeNames == {"len", "nope"}

CalleeArgs == {List(<<>>), List(<<Num(1)>>)}

\* The operands of the conditional expressions.
IfExpOperands == <<Num(0), Name("x"), That(Num(0)), That(Num(1))>>

\* The right operands that begin with a minus sign, and the numbers they
\* are added to: a number, or a chain of binary operators (1 + 3 - -4).
MinusOperands ==
    <<UnaryOp("USub", Num(4)), ParenUnaryOp("USub", Num(4)), UnaryOp("USub", Name("x"))>>

MinusLefts == <<Num(1), BinOp(Num(1), "Add", Num(3))>>

\* The positional and the keyword arguments of the calls.
ArgForms ==
    <<Num(1), Name("x"), Starred(List(<<Num(1)>>)), Starred(List(<<Num(1), Num(2)>>))>>

KeywordForms ==
    <<<<>>, <<keyword("z", Num(3))>>, <<keyword("y", Name("x")), keyword("z", Num(3))>>>>

\* The operands and the operators of the chains of binary operators.
ChainOperands == <<Num(1), Num(3), TightBinOp(Num(5), "Pow", Num(1))>>

ChainOps == <<"Add", "Sub", "Mult">>

\* ast.parse on "e1 op1 e2 op2 ...": "*" binds tighter than "+" and "-",
\* operators of one level associate to the left. acc is the sum read so
\* far (<<>> when there is none), accop the operator after it, term the
\* product being read, i the next operator.
RECURSIVE ParseChain(_, _, _, _, _, _)
ParseChain(operands, ops, i, acc, accop, term) ==
    LET sum == IF acc = <<>> THEN term ELSE BinOp(acc[1], accop, term)
    IN IF i > Len(ops) THEN sum
       ELSE IF ops[i] = "Mult"
       THEN ParseChain(operands, ops, i + 1, acc, accop,
                       BinOp(term, "Mult", operands[i + 1]))
       ELSE ParseChain(operands, ops, i + 1, <<sum>>, ops[i], operands[i + 1])

\* The sequences over 1..n of length lo to hi: choices of operands.
Choices(n, lo, hi) == UNION {[1..k -> 1..n] : k \in lo..hi}

Pick(forms, f) == [i \in DOMAIN f |-> forms[f[i]]]

\* The statement "assert test, error()" is about to run in a frame where
\* x has the value x0.
StartIn(test, fr) ==
    LET lay == Layout(AssertStmt(test), 0)
    IN /\ stmt = lay.node
       /\ source = <<lay.text>>
       /\ frame = fr
       /\ heap = EmptyHeap
       /\ atFailure = <<>>
       /\ epc = "start"
       /\ thrown = <<>>

StartWith(test, x0) == StartIn(test, TestFrame(x0))

\* The frame of a function whose local l is a list.
ListFrame(l) ==
    Frame([k \in {"l"} |-> l],
          [k \in {"foo", "vs"} |-> IF k = "foo" THEN FunctionVal("foo") ELSE ListRef])

\* The lists l can be: empty, with one number, with an object whose repr
\* raises.
LValues == <<ListVal(<<>>), ListVal(<<IntVal(0)>>), ListVal(<<BadVal>>)>>

\* The operands of the statements about l.
ListOperands == <<Name("l"), Subscript(Name("l"), 0), Num(0), List(<<Num(1)>>)>>

InitEval ==
    /\ IdleCollector
    /\ IdleDiff
    /\ IdleReport
    /\ IdleHelpers
    /\ \E x0 \in XValues :
         \/ \E op \in {"And", "Or"}, f \in Choices(Len(BoolOperands), 2, MaxOperands) :
              StartWith(BoolOp(op, Pick(BoolOperands, f)), x0)
         \/ \E f \in Choices(5, 3, 3) :
              \/ StartWith(BoolOp("Or", <<BoolOp("And", <<BoolOperands[f[1]],
                               BoolOperands[f[2]]>>), BoolOperands[f[3]]>>), x0)
              \/ StartWith(BoolOp("And", <<BoolOperands[f[1]],
                               ParenBoolOp("Or", <<BoolOperands[f[2]],
                                   BoolOperands[f[3]]>>)>>), x0)
         \/ \E op \in {"Eq", "NotEq", "Is"}, f \in Choices(Len(CompareOperands), 2, 2) :
              StartWith(CompareNode(CompareOperands[f[1]], <<op>>,
                                    <<CompareOperands[f[2]]>>), x0)
         \/ \E where \in {"builtin", "global", "local", "both"},
               f \in CalleeNames, arg \in CalleeArgs :
              LET call == Call(f, <<arg>>, <<>>)
              IN \/ StartIn(call, CalleeFrame(x0, where))
                 \/ \E op \in {"And", "Or"} :
                      StartIn(BoolOp(op, <<Name("x"), call>>), CalleeFrame(x0, where))
                 \/ \E n \in {0, 1} :
                      StartIn(CompareNode(call, <<"Eq">>, <<Num(n)>>),
                              CalleeFrame(x0, where))
         \/ \E f \in [1..3 -> DOMAIN IfExpOperands] :
              StartWith(IfExp(IfExpOperands[f[1]], IfExpOperands[f[2]],
                              IfExpOperands[f[3]]), x0)
         \/ \E i \in DOMAIN MinusOperands, op \in {"Add", "Sub", "Mult"}, n \in {0, 9} :
              \/ \E l \in DOMAIN MinusLefts :
                   StartWith(CompareNode(BinOp(MinusLefts[l], op, MinusOperands[i]),
                                         <<"Eq">>, <<Num(n)>>), x0)
              \/ StartWith(CompareNode(Name("x"), <<IF n = 0 THEN "Lt" ELSE "Eq">>,
                                       <<MinusOperands[i]>>), x0)
              \/ StartWith(BoolOp(IF n = 0 THEN "And" ELSE "Or",
                                  <<UnaryOp("Not", Name("x")), MinusOperands[i]>>), x0)
         \/ \E k \in 2..MaxCompare :
              \E f \in [1..(k + 1) -> DOMAIN ChainedOperands], g \in [1..k -> ChainedOps] :
                 StartWith(CompareNode(ChainedOperands[f[1]], g,
                               [i \in 1..k |-> ChainedOperands[f[i + 1]]]), x0)
         \/ \E k \in 2..MaxChain :
              \E f \in [1..(k + 1) -> DOMAIN ChainOperands], g \in [1..k -> DOMAIN ChainOps] :
                 /\ x0 = 0
                 /\ StartWith(CompareNode(
                        ParseChain(Pick(ChainOperands, f), Pick(ChainOps, g), 1,
                                   <<>>, "Add", ChainOperands[f[1]]),
                        <<"Is">>, <<NameConstant(BoolVal(FALSE))>>), x0)
         \/ \E f \in Choices(Len(ArgForms), 0, MaxArgs), k \in DOMAIN KeywordForms :
              StartWith(CompareNode(Call("foo", Pick(ArgForms, f), KeywordForms[k]),
                                    <<"Is">>, <<NameConstant(BoolVal(FALSE))>>), x0)
         \/ \E i \in 1..2, op \in {"And", "Or"}, f \in Choices(3, 2, MaxOperands) :
              /\ x0 = 0
              /\ StartIn(BoolOp(op, Pick(ListOperands, f)), ListFrame(LValues[i]))
         \/ \E i \in DOMAIN LValues, op \in {"Eq", "NotEq"}, f \in Choices(4, 2, 2) :
              /\ x0 = 0
              /\ StartIn(CompareNode(ListOperands[f[1]], <<op>>, <<ListOperands[f[2]]>>),
                         ListFrame(LValues[i]))

\* assert test, error(): the check of the statement holds.
AssertPasses ==
    /\ epc = "start"
    /\ LET r == Eval(stmt.test, merged_scope(frame.f_globals, frame.f_locals), heap)
       IN /\ r.val.t # "Raised"
          /\ truthy(r.val)
          /\ heap' = r.st
          /\ epc' = "passed"
    /\ UNCHANGED <<stmt, source, frame, atFailure, thrown>>
    /\ UNCHANGED notEval

\* assert test, error(): the check fails, the message is evaluated next.
AssertFails ==
    /\ epc = "start"
    /\ LET r == Eval(stmt.test, merged_scope(frame.f_globals, frame.f_locals), heap)
       IN /\ r.val.t # "Raised"
          /\ ~truthy(r.val)
          /\ heap' = r.st
          /\ atFailure' = [frame |-> frame, heap |-> r.st]
          /\ epc' = "failed"
    /\ UNCHANGED <<stmt, source, frame, thrown>>
    /\ UNCHANGED notEval

\* assert test, error(): the test itself raises; error() is not called.
AssertRaises ==
    /\ epc = "start"
    /\ LET r == Eval(stmt.test, merged_scope(frame.f_globals, frame.f_locals), heap)
       IN /\ r.val.t = "Raised"
          /\ heap' = r.st
          /\ epc' = "test raised"
          /\ thrown' = <<r.val>>
    /\ UNCHANGED <<stmt, source, frame, atFailure>>
    /\ UNCHANGED notEval

\* error(): __init__ takes the caller's frame and generate() replays the
\* statement with AssertEval(frame, frame_info).eval().
ErrorInit ==
    /\ epc = "failed"
    /\ LET ev == AssertEval_init(frame)
           r == AssertEval_eval(ev, source, stmt, heap)
       IN /\ frame' = ev.frame
          /\ heap' = r.st
          /\ epc' = IF r.val.t = "Raised" THEN "raised" ELSE "diagnosed"
          /\ thrown' = IF r.val.t = "Raised" THEN <<r.val>> ELSE <<>>
    /\ UNCHANGED <<stmt, source, atFailure>>
    /\ UNCHANGED notEval

NextEval == AssertPasses \/ AssertFails \/ AssertRaises \/ ErrorInit

SpecEval == InitEval /\ [][NextEval]_vars

\* ------------------------------------------------------------------------
\* Properties of the replay
\* ------------------------------------------------------------------------
\* The nodes directly below node n.
Children(n) ==
    CASE n.kind \in {"Starred", "Subscript"} -> <<n.value>>
      [] n.kind = "List" -> n.elts
      [] n.kind = "Call" -> n.args \o [i \in DOMAIN n.keywords |-> n.keywords[i].value]
      [] n.kind = "BoolOp" -> n.values
      [] n.kind = "BinOp" -> <<n.left, n.right>>
      [] n.kind = "UnaryOp" -> <<n.operand>>
      [] n.kind = "IfExp" -> <<n.test, n.body, n.orelse>>
      [] n.kind = "Compare" -> <<n.left>> \o n.comparators
      [] n.kind = "Assert" -> <<n.test>>
      [] OTHER -> <<>>

RECURSIVE CountCalls(_)
RECURSIVE CountCallsIn(_)
RECURSIVE CallsOutsideCell(_)
RECURSIVE CallsOutsideCellIn(_)

\* The number of calls written in the tree n.
CountCalls(n) == (IF n.kind = "Call" THEN 1 ELSE 0) + CountCallsIn(Children(n))

CountCallsIn(ns) ==
    IF ns = <<>> THEN 0 ELSE CountCalls(ns[1]) + CountCallsIn(Tail(ns))

\* The number of calls written in the tree n that are neither a call of the
\* cell nor part of the argument of one.
CallsOutsideCell(n) ==
    IF n.kind = "Call"
    THEN (IF n.func = "that" THEN 0 ELSE 1 + CallsOutsideCellIn(Children(n)))
    ELSE CallsOutsideCellIn(Children(n))

CallsOutsideCellIn(ns) ==
    IF ns = <<>> THEN 0 ELSE CallsOutsideCell(ns[1]) + CallsOutsideCellIn(Tail(ns))

\* s is a prefix of t.
IsPrefix(s, t) == Len(s) <= Len(t) /\ SubSeq(t, 1, Len(s)) = s

\* The evaluation records placed at (1, col) for a node of the given kind.
RecordsAt(kind, col) ==
    {i \in DOMAIN heap.nodes :
        /\ heap.nodes[i].kind = kind
        /\ heap.nodes[i].lineno = 1
        /\ heap.nodes[i].col = col}

\* What the cell calls of the statement produced during the replay, in
\* order.
Replayed ==
    SubSeq(heap.yielded, Len(atFailure.heap.yielded) + 1, Len(heap.yielded))

\* C5: a cell called by the original check with v1, ..., vn returns each
\* value as it is and queues it in call order; the i-th cell call of the
\* replay yields vi (first in, first out), for every i up to n.
C5_CellReplaysFirstInFirstOut ==
    /\ epc \in {"failed", "diagnosed"} =>
          LET h == atFailure.heap
          IN /\ h.stack = [i \in DOMAIN h.cells |-> h.cells[i].arg]
             /\ h.yielded = h.stack
             /\ \A i \in DOMAIN h.cells : h.cells[i].ret = h.cells[i].arg
    /\ epc = "diagnosed" =>
          \A i \in DOMAIN Replayed :
              i <= Len(atFailure.heap.stack) => Replayed[i] = atFailure.heap.stack[i]

\* C6: when every function call of the failed expression is inside the
\* argument of a cell call, building the diagnostic evaluates no cell
\* argument again: the list the arguments append to, and the calls the cell
\* has received, are as the failed check left them.
C6_CellArgumentEvaluatedOnce ==
    epc = "diagnosed" /\ CallsOutsideCell(stmt) = 0 =>
        /\ heap.vs = atFailure.heap.vs
        /\ heap.cells = atFailure.heap.cells

\* C7 as claimed: after error() the bindings of the frame and the objects
\* they refer to (the list vs, the cell's stack) are as they were before.
C7_CallerStateUnchanged ==
    epc = "diagnosed" =>
        /\ frame = atFailure.frame
        /\ heap.vs = atFailure.heap.vs
        /\ heap.stack = atFailure.heap.stack

\* C7, amended: after error() the local and global bindings of the frame
\* are as they were before; the objects they refer to are unchanged when
\* the expression contains no call, and otherwise change only by what the
\* replayed calls do (the list vs keeps its entries and gains those of the
\* functions called again).
C7_BindingsUnchanged ==
    epc = "diagnosed" =>
        /\ frame = atFailure.frame
        /\ IsPrefix(atFailure.heap.vs, heap.vs)
        /\ CountCalls(stmt) = 0 =>
              /\ heap.vs = atFailure.heap.vs
              /\ heap.stack = atFailure.heap.stack

\* A replay called a function again: the caller's list grew, the bindings
\* of the frame stayed.
C7_Witness ==
    /\ epc = "diagnosed"
    /\ Len(heap.vs) > Len(atFailure.heap.vs)
    /\ frame = atFailure.frame
    /\ "error" \notin DOMAIN frame.f_locals

\* The statement is "assert foo(...) is False, error()".
IsCallCheck ==
    /\ stmt.test.kind = "Compare"
    /\ stmt.test.left.kind = "Call"
    /\ stmt.test.comparators[1].kind = "NameConstant"

\* C8: the replay of "assert foo(...) is False" invokes foo exactly once,
\* with the positional arguments and the keyword arguments of the original
\* call, and records the call's result after the records of its arguments.
C8_CallReplayedWithSameArguments ==
    epc = "diagnosed" /\ IsCallCheck =>
        /\ Len(heap.vs) = 2
        /\ heap.vs[2] = heap.vs[1]
        /\ \E i \in RecordsAt("Call", stmt.test.left.col) :
              /\ \A j \in 1..(i - 1) : heap.nodes[j].col > stmt.test.left.col
              /\ \A j \in (i + 1)..Len(heap.nodes) :
                    heap.nodes[j].kind \in {"Is", "Assert"}

\* The boolean operations of the statement: the test, when it is one, and
\* those of its operands that are.
BoolOpNodes ==
    IF stmt.test.kind # "BoolOp" THEN <<>>
    ELSE <<stmt.test>> \o SelectSeq(stmt.test.values, LAMBDA v : v.kind = "BoolOp")

\* The records of the results of the operator written between operands
\* i - 1 and i of the boolean operation b: a record of b's operator placed
\* where the source has the operator's symbol, between the two operands.
OperatorRecords(b, i) ==
    {k \in DOMAIN heap.nodes :
        LET r == heap.nodes[k]
            sym == op_symbols(b.op)
        IN /\ r.kind = b.op
           /\ r.value.t = "FuncResult"
           /\ r.lineno = 1
           /\ b.values[i - 1].col < r.col
           /\ r.col < b.values[i].col
           /\ SubSeq(source[1], r.col + 1, r.col + Len(sym)) = sym}

\* One result is recorded per operator of b, at the operator's position.
OneResultPerOperator(b) ==
    /\ \A i \in 2..Len(b.values) : Cardinality(OperatorRecords(b, i)) = 1
    /\ Cardinality({k \in DOMAIN heap.nodes : heap.nodes[k].kind = b.op})
          = Len(b.values) - 1

RECURSIVE BinOpNodes(_)
RECURSIVE BinOpNodesIn(_)
BinOpNodes(n) ==
    (IF n.kind = "BinOp" THEN <<n>> ELSE <<>>) \o BinOpNodesIn(Children(n))

BinOpNodesIn(ns) ==
    IF ns = <<>> THEN <<>> ELSE BinOpNodes(ns[1]) \o BinOpNodesIn(Tail(ns))

\* The records of results of binary operators.
BinOpRecords ==
    {k \in DOMAIN heap.nodes : heap.nodes[k].kind \in {"Add", "Sub", "Mult", "Pow"}}

\* C11: for a chain of binary operators on one line, every operator's
\* result is recorded once, at the column of the operator's own token, so
\* the results of a chain lie at as many different columns as the chain has
\* operators.
C11_OperatorResultAtOwnColumn ==
    epc = "diagnosed" =>
        LET bs == BinOpNodes(stmt)
        IN /\ \A i \in DOMAIN bs :
                 Cardinality({k \in BinOpRecords :
                     /\ heap.nodes[k].kind = bs[i].op
                     /\ heap.nodes[k].lineno = 1
                     /\ heap.nodes[k].col = bs[i].opcol}) = 1
           /\ Cardinality(BinOpRecords) = Len(bs)
           /\ Cardinality({heap.nodes[k].col : k \in BinOpRecords}) = Len(bs)

\* assert 1 + 3 - ... - ..., error(): an operator occurs twice in the chain
\* and its two results are recorded at the two columns.
C11_Witness ==
    /\ epc = "diagnosed"
    /\ \E k1, k2 \in BinOpRecords :
          /\ heap.nodes[k1].kind = "Sub"
          /\ heap.nodes[k2].kind = "Sub"
          /\ heap.nodes[k1].col < heap.nodes[k2].col
          /\ SubSeq(source[1], heap.nodes[k1].col + 1, heap.nodes[k1].col + 1) = <<"-">>
          /\ SubSeq(source[1], heap.nodes[k2].col + 1, heap.nodes[k2].col + 1) = <<"-">>
    /\ \E k \in BinOpRecords : heap.nodes[k].kind = "Add"

\* ------------------------------------------------------------------------
\* The source of the failing function and the span AssertEval.eval accepts
\* ------------------------------------------------------------------------
\* n spaces
RECURSIVE Spaces(_)
Spaces(n) == IF n <= 0 THEN <<>> ELSE <<" ">> \o Spaces(n - 1)

\* A physical source line: its indentation, the characters after it, the
\* part it plays in a statement, and, on the first line of an assert
\* statement, the tree ast.parse gives for the statement:
\*   "def"      def t():
\*   "simple"   a complete one-line statement that is not an assert
\*   "assert"   a complete one-line assert
\*   "open"     assert (                first line of a bracketed assert
\*   "mid"      x == 1                  a line inside the brackets
\*   "close"    ), error()              the line that closes the brackets
\*   "callopen" assert x, error(        the message call opens a bracket
\*   "callclose" "desc")
\*   "head"     assert x == 1, \        first line of a continued assert
\*   "tail"     error()                 the continuation line
SrcLine(indent, body, form, tree) ==
    [indent |-> indent, body |-> body, form |-> form, tree |-> tree]

line_text(l) == Spaces(l.indent) \o l.body

\* The smallest of a non-empty set of numbers.
Min(S) == CHOOSE m \in S : \A k \in S : m <= k

\* textwrap.dedent(expression).strip().split("\n") on the lines of a span:
\* the common indentation goes, and the first line loses all of its own.
dedent_strip(span) ==
    LET common == Min({span[i].indent : i \in DOMAIN span})
    IN [i \in DOMAIN span |->
          IF i = 1 THEN span[i].body
          ELSE Spaces(span[i].indent - common) \o span[i].body]

\* The number of lines of the first complete statement of a span whose
\* lines have the given forms, 0 when the span does not begin with one.
FirstStatement(forms) ==
    CASE forms = <<>> -> 0
      [] forms[1] \in {"simple", "assert", "tail", "mid"} -> 1
      [] forms[1] = "open" ->
           IF \E k \in 2..Len(forms) :
                 /\ forms[k] = "close"
                 /\ \A j \in 2..(k - 1) : forms[j] = "mid"
           THEN CHOOSE k \in 2..Len(forms) :
                   forms[k] = "close" /\ \A j \in 2..(k - 1) : forms[j] = "mid"
           ELSE 0
      [] forms[1] = "callopen" ->
           IF Len(forms) >= 2 /\ forms[2] = "callclose" THEN 2 ELSE 0
      [] forms[1] = "head" -> IF Len(forms) >= 2 /\ forms[2] = "tail" THEN 2 ELSE 0
      [] OTHER -> 0

\* The span is a sequence of complete statements of one block.
RECURSIVE Statements(_)
Statements(span) ==
    IF span = <<>> THEN TRUE
    ELSE LET k == FirstStatement([i \in DOMAIN span |-> span[i].form])
         IN k > 0 /\ Statements(SubSeq(span, k + 1, Len(span)))

\* ast.parse(dedent(span).strip()): the Module's first statement, or a
\* SyntaxError. A def parses with the statements of its body.
ast_parse(span) ==
    IF span[1].form = "def"
    THEN IF Len(span) > 1 /\ Statements(Tail(span))
            /\ \A i \in 2..Len(span) : span[i].indent > span[1].indent
         THEN [ok |-> TRUE, tree |-> [kind |-> "FunctionDef", lineno |-> 1, col |-> 0]]
         ELSE [ok |-> FALSE, tree |-> <<>>]
    ELSE IF Statements(span)
            /\ \A i \in 2..Len(span) :
                  span[i].form \in {"simple", "assert", "open", "callopen", "head"}
                     => span[i].indent = Min({span[j].indent : j \in DOMAIN span})
    THEN [ok |-> TRUE,
          tree |-> CASE span[1].form \in {"tail", "mid"} ->
                          [kind |-> "Expr", lineno |-> 1, col |-> 0]
                     [] span[1].form = "simple" ->
                          [kind |-> "Assign", lineno |-> 1, col |-> 0]
                     [] OTHER -> span[1].tree]
    ELSE [ok |-> FALSE, tree |-> <<>>]

\* A loop that goes on after a span has parsed and keeps the longest span
\* that parses.
RECURSIVE locate_longest(_, _, _)
locate_longest(sourcelines, last, i) ==
    LET span == SubSeq(sourcelines, i, last)
        parsed == ast_parse(span)
        longer == IF i = 1 THEN [ok |-> FALSE] ELSE locate_longest(sourcelines, last, i - 1)
    IN IF longer.ok THEN longer
       ELSE [expression |-> IF parsed.ok THEN dedent_strip(span)
                            ELSE dedent_strip(SubSeq(sourcelines, 1, last)),
             ok |-> parsed.ok, tree |-> parsed.tree, first |-> i]

\* The loop of AssertEval.eval: for i in range(lineno - startline + 1, 0, -1)
\* the span sourcelines[i - 1:] up to the failure line is tried, the first
\* that parses is kept; self.expression is the last span tried.
RECURSIVE locate(_, _, _)
locate(sourcelines, last, i) ==
    LET span == SubSeq(sourcelines, i, last)
        parsed == ast_parse(span)
    IN IF parsed.ok \/ i = 1
       THEN [expression |-> dedent_strip(span), ok |-> parsed.ok, tree |-> parsed.tree,
             first |-> i]
       ELSE locate(sourcelines, last, i - 1)

\* ------------------------------------------------------------------------
\* The text of a diagnostic
\* ------------------------------------------------------------------------
\* A text is a sequence of lines, a line a sequence of characters; a title
\* or a placeholder is kept as one token.
\* textwrap.indent(text, "  "): the prefix goes before every line that is
\* not blank.
indent(lines) ==
    [i \in DOMAIN lines |->
        IF \A j \in DOMAIN lines[i] : lines[i][j] = " " THEN lines[i]
        ELSE <<" ", " ">> \o lines[i]]

\* line.lstrip() on one line
RECURSIVE lstrip(_)
lstrip(cs) == IF cs # <<>> /\ cs[1] = " " THEN lstrip(Tail(cs)) ELSE cs

\* text.lstrip() on the lines of a text: blank lines at the start go with
\* the white space before the first character.
RECURSIVE lstrip_text(_)
lstrip_text(lines) ==
    IF lines = <<>> THEN <<>>
    ELSE IF lstrip(lines[1]) = <<>> /\ Len(lines) > 1 THEN lstrip_text(Tail(lines))
    ELSE <<lstrip(lines[1])>> \o Tail(lines)

RECURSIVE repr_text(_)
RECURSIVE saferepr(_)

\* repr(x) as lines: FuncResult.__repr__ and DiffResult.__repr__ for the
\* wrappers, one line for every other value.
repr_text(x) ==
    CASE x.t = "FuncResult" ->
           LET r == saferepr(x.v[1])
           IN <<<<"=", " ">> \o r[1]>> \o Tail(r)
      [] x.t = "DiffResult" ->
           saferepr(x.result) \o (IF x.diff = <<>> THEN <<<<>>>> ELSE x.diff)
      [] OTHER -> <<Repr(x)>>

\* _saferepr(value)
saferepr(value) ==
    IF repr_fails(value) THEN <<<<"<unknown> (repr() failed with '%s')">>>>
    ELSE lstrip_text(indent(repr_text(value)))

\* An error object as generate_message reads it: desc, expression (<<>>
\* for None), nodes, the four section flags, and the frame info.
\* generate_expression_section()
generate_expression_section_text(err) ==
    IF err.expression_section /\ err.expression # <<>>
    THEN <<<<>>, <<"The following assertion was not satisfied">>>>
            \o [i \in DOMAIN err.expression |-> <<" ", " ">> \o err.expression[i]]
    ELSE <<>>

\* generate_description_section()
generate_description_section_text(err) ==
    IF err.description_section /\ err.desc # None
    THEN <<<<>>, <<"Description">>, <<" ", " ", Capitalize(err.desc)>>>>
    ELSE <<>>

\* The inner loop printing only the line of the record and the caret.
values_of_record_own_line(expression, r, i) ==
    IF i > 1 \/ r.lineno \notin DOMAIN expression THEN <<>>
    ELSE LET ln == expression[r.lineno]
             col_offset == IF r.col < 0 THEN Len(ln) - Len(lstrip(ln)) ELSE r.col
             text == saferepr(r.value)
         IN <<<<" ", " ">> \o ln,
              <<" ", " ">> \o Spaces(col_offset) \o <<"^", " ", "i", "s", " ">> \o text[1]>>
               \o Tail(text)

\* The lines one record adds to the values section: every line of the
\* expression, and after the line of the record the caret with the value.
RECURSIVE values_of_record(_, _, _)
values_of_record(expression, r, i) ==
    IF i > Len(expression) THEN <<>>
    ELSE LET ln == expression[i]
             col_offset == IF r.col < 0 THEN Len(ln) - Len(lstrip(ln)) ELSE r.col
             text == saferepr(r.value)
             caret == <<<<" ", " ">> \o Spaces(col_offset) \o <<"^", " ", "i", "s", " ">>
                          \o text[1]>> \o Tail(text)
         IN <<<<" ", " ">> \o ln>>
               \o (IF r.lineno = i THEN caret ELSE <<>>)
               \o values_of_record(expression, r, i + 1)

RECURSIVE values_of_records(_, _)
values_of_records(expression, nodes) ==
    IF nodes = <<>> THEN <<>>
    ELSE values_of_record(expression, nodes[1], 1)
            \o values_of_records(expression, Tail(nodes))

\* generate_values_section()
generate_values_section_text(err) ==
    IF err.values_section /\ err.nodes # <<>>
    THEN <<<<>>, <<"Assertion values">>>> \o values_of_records(err.expression, err.nodes)
    ELSE <<>>

\* str(n) for n >= 0
RECURSIVE Digits(_)
Digits(n) == IF n < 10 THEN <<ItoA(n)>> ELSE Digits(n \div 10) \o <<ItoA(n % 10)>>

\* linecache.getline(filename, n): the line with its line end, "" when the
\* file has no line n.
getline(file, n) == IF n \in DOMAIN file THEN file[n] ELSE <<>>

\* "|> ".join(print_line.split("|  ", 1))
mark(print_line) ==
    LET at == find(print_line, <<"|", " ", " ">>)
    IN IF at < 0 THEN print_line
       ELSE SubSeq(print_line, 1, at) \o <<"|", ">", " ">>
               \o SubSeq(print_line, at + 4, Len(print_line))

\* The loop of error.code_block from line n.
RECURSIVE code_block_from(_, _, _, _, _)
code_block_from(file, lineno, n, min_n, max_n) ==
    IF n >= max_n THEN <<>>
    ELSE LET ln == getline(file, n)
             width == Len(Digits(max_n))
             print_line == Spaces(width - Len(Digits(n))) \o Digits(n)
                              \o <<"|", " ", " ">> \o ln
         IN IF n > min_n /\ Len(ln) = 0 THEN <<>>
            ELSE <<IF n = lineno THEN mark(print_line) ELSE print_line>>
                    \o code_block_from(file, lineno, n + 1, min_n, max_n)

\* error.code_block(filename, lineno, before=8, after=4)
code_block(file, lineno, before, after) ==
    LET min_n == IF lineno - before > 1 THEN lineno - before ELSE 1
        max_n == lineno + after
    IN code_block_from(file, lineno, min_n, min_n, max_n)

\* generate_where_section()
generate_where_section_text(err) ==
    IF err.where_section /\ err.code_context
    THEN <<<<>>, <<"Where">>, <<" ", " ", "File '%s', line %d in '%s'">>, <<>>>>
            \o code_block(err.file, err.lineno, 8, 4)
    ELSE <<>>

\* generate_message()
generate_message_text(err) ==
    <<<<"Oops! Assertion failed">>>>
        \o generate_expression_section_text(err)
        \o generate_description_section_text(err)
        \o generate_values_section_text(err)
        \o generate_where_section_text(err)

\* ------------------------------------------------------------------------
\* error() on a failure line of a source file
\* ------------------------------------------------------------------------
\* AssertEval.eval() with the expression taken from the source: src has
\* the lines of the function (inspect.getsourcelines), its first line
\* number, the failure line number and whether frame_info has code_context.
AssertEval_eval_source(ev, src, st) ==
    IF ~src.code_context THEN [expression |-> <<>>, val |-> NoneVal, st |-> st]
    ELSE LET last == src.lineno - src.startline + 1
             loc == locate(src.sourcelines, last, last)
         IN IF ~loc.ok THEN [expression |-> loc.expression, val |-> NoneVal, st |-> st]
            ELSE LET r == visit(loc.tree, [ev EXCEPT !.expression = loc.expression], st)
                 IN [expression |-> loc.expression, val |-> r.val, st |-> r.st]

\* error(desc, ...) called from the frame fr: __init__ and generate(). The
\* result is the exception the construction raised, or the error object
\* with its message.
error_construct(desc, fl, fr, src, st) ==
    LET ev == AssertEval_init(fr)
        e == AssertEval_eval_source(ev, src, st)
        err == [desc |-> desc, expression |-> e.expression, nodes |-> e.st.nodes,
                expression_section |-> fl.expression_section,
                description_section |-> fl.description_section,
                values_section |-> fl.values_section,
                where_section |-> fl.where_section,
                code_context |-> src.code_context,
                file |-> src.file, lineno |-> src.lineno]
    IN IF e.val.t = "Raised"
       THEN [raised |-> e.val, err |-> <<>>, message |-> <<>>]
       ELSE [raised |-> NoneVal, err |-> err, message |-> generate_message_text(err)]

\* ------------------------------------------------------------------------
\* Functions whose assert fails, as source files
\* ------------------------------------------------------------------------
\* Bound: the number of lines a file has before the function.
MaxPad == 2

Text_def == <<"d", "e", "f", " ", "t", "(", ")", ":">>

Text_assign == <<"x", " ", "=", " ", "0">>

Text_error == Chars_of("error") \o <<"(", ")">>

\* assert x == 1, error() on one line, from column 0.
OneLineAssert ==
    Layout(AssertStmt(CompareNode(Name("x"), <<"Eq">>, <<Num(1)>>)), 0)

\* The tree of   assert (      the test is on the second line, 4 columns in.
\*                   x == 1
\*               ), error()
BracketAssert ==
    [AssertStmt(
        [CompareNode([Name("x") EXCEPT !.lineno = 2, !.col = 4], <<"Eq">>,
                     <<[Num(1) EXCEPT !.lineno = 2, !.col = 9]>>)
            EXCEPT !.lineno = 2, !.col = 4])
        EXCEPT !.lineno = 1, !.col = 0]

\* The tree of   assert x, error(...)
NameAssert ==
    [AssertStmt([Name("x") EXCEPT !.lineno = 1, !.col = 7]) EXCEPT !.lineno = 1, !.col = 0]

\* def t():
\*     x = 0
\*     assert x == 1, error()
FnOneLine ==
    [lines |-> <<SrcLine(0, Text_def, "def", <<>>),
                 SrcLine(4, Text_assign, "simple", <<>>),
                 SrcLine(4, OneLineAssert.text, "assert", OneLineAssert.node)>>,
     failure |-> 3]

\* def t():
\*     x = 0
\*     assert (
\*         x == 1
\*     ), error()
FnBracket ==
    [lines |-> <<SrcLine(0, Text_def, "def", <<>>),
                 SrcLine(4, Text_assign, "simple", <<>>),
                 SrcLine(4, Chars_of("assert") \o <<" ", "(">>, "open", BracketAssert),
                 SrcLine(8, <<"x", " ", "=", "=", " ", "1">>, "mid", <<>>),
                 SrcLine(4, <<")", ",", " ">> \o Text_error, "close", <<>>)>>,
     failure |-> 5]

\* def t():
\*     x = 0
\*     assert x, error(
\*         "desc")
\* The frame's line is the line on which the call of error begins.
FnCallOpen ==
    [lines |-> <<SrcLine(0, Text_def, "def", <<>>),
                 SrcLine(4, Text_assign, "simple", <<>>),
                 SrcLine(4, Chars_of("assert") \o <<" ", "x", ",", " ">>
                               \o Chars_of("error") \o <<"(">>, "callopen", NameAssert),
                 SrcLine(8, <<"\"", "d", "e", "s", "c", "\"", ")">>, "callclose", <<>>)>>,
     failure |-> 3]

\* def t():
\*     x = 0
\*     assert x == 1, \
\*         error()
FnContinued ==
    [lines |-> <<SrcLine(0, Text_def, "def", <<>>),
                 SrcLine(4, Text_assign, "simple", <<>>),
                 SrcLine(4, SubSeq(OneLineAssert.text, 1, Len(OneLineAssert.text) - 7)
                               \o <<"\\">>, "head", OneLineAssert.node),
                 SrcLine(8, Text_error, "tail", <<>>)>>,
     failure |-> 4]

SourceCases == <<FnOneLine, FnBracket, FnCallOpen, FnContinued>>

\* The file that holds the function fn after pad blank lines, every line
\* with its line end, and what inspect gives for the failing frame.
SourceOf(fn, pad, code_context) ==
    [sourcelines |-> fn.lines,
     startline |-> pad + 1,
     lineno |-> pad + fn.failure,
     code_context |-> code_context,
     file |-> [i \in 1..(pad + Len(fn.lines)) |->
                 IF i <= pad THEN <<"\n">>
                 ELSE line_text(fn.lines[i - pad]) \o <<"\n">>]]

\* The section flags error() can be called with.
FlagSets ==
    [expression_section : BOOLEAN, description_section : BOOLEAN,
     values_section : BOOLEAN, where_section : BOOLEAN]

\* ------------------------------------------------------------------------
\* The text of a diagnostic: error(), the values section, the code block
\* ------------------------------------------------------------------------
InitErrorCall ==
    /\ \E k \in DOMAIN SourceCases, pad \in 0..MaxPad, cc \in BOOLEAN,
          desc \in {None, "boo"}, fl \in FlagSets :
         rIn = [op |-> "error", fn |-> k, pad |-> pad, code_context |-> cc,
                desc |-> desc, fl |-> fl]
    /\ rOut = <<>>

\* Bounds of the values section: the records of a diagnostic.
MaxRecords == 2

\* The expressions of one, two and three lines.
ExpressionTexts ==
    <<<<OneLineAssert.text>>,
      <<Chars_of("assert") \o <<" ", "(", "x", " ", "=", "=">>,
        <<" ", " ", " ", " ", "1", ")", ",", " ">> \o Text_error>>,
      dedent_strip(SubSeq(FnBracket.lines, 3, 5))>>

\* The values of the records: plain values, a call's result, an object
\* whose repr raises, and a comparison's result with a diff of two lines.
RecordValues ==
    <<IntVal(0), FuncResult(IntVal(1)), BadVal,
      DiffResult(BoolVal(FALSE), <<<<"-", "a">>, <<"+", "b">>>>)>>

\* The columns of the records; -1 is what the parser gives for a node
\* whose column it does not know.
RecordColumns == {-1, 4}

InitValuesSection ==
    /\ \E e \in DOMAIN ExpressionTexts, n \in 1..MaxRecords, on \in BOOLEAN :
         \E ls \in [1..n -> DOMAIN ExpressionTexts[e]], cs \in [1..n -> RecordColumns],
            vs \in [1..n -> DOMAIN RecordValues] :
            rIn = [op |-> "values",
                   values_section |-> on,
                   expression |-> ExpressionTexts[e],
                   nodes |-> [k \in 1..n |-> Record(RecordValues[vs[k]], "Name", ls[k], cs[k])]]
    /\ rOut = <<>>

\* Bound of the code block: the number of lines of the file.
MaxFileLines == 14

\* Line i of a file: every third line is blank, every fourth has the text
\* of a margin in it, every line has its line end.
FileLine(i) ==
    CASE i % 3 = 0 -> <<"\n">>
      [] i % 4 = 0 -> <<"a", "|", " ", " ", "b", "\n">>
      [] OTHER -> <<"p", "a", "s", "s", "\n">>

InitCodeBlock ==
    /\ \E n \in 1..MaxFileLines : \E l \in 1..n :
         rIn = [op |-> "code_block", file |-> [i \in 1..n |-> FileLine(i)], lineno |-> l]
    /\ rOut = <<>>

InitReport ==
    /\ IdleCollector
    /\ IdleDiff
    /\ IdleEval
    /\ IdleHelpers
    /\ (InitErrorCall \/ InitValuesSection \/ InitCodeBlock)

\* assert ..., error(desc, ...) in the function rIn.fn, the check has
\* failed: error.__init__ and generate().
ErrorCall ==
    /\ rIn # <<>>
    /\ rIn.op = "error"
    /\ rOut = <<>>
    /\ rOut' = error_construct(rIn.desc, rIn.fl, TestFrame(0),
                               SourceOf(SourceCases[rIn.fn], rIn.pad, rIn.code_context),
                               EmptyHeap)
    /\ UNCHANGED rIn
    /\ UNCHANGED notReport

\* error.generate_values_section() of a diagnostic with the expression and
\* the records rIn.
ValuesSection ==
    /\ rIn # <<>>
    /\ rIn.op = "values"
    /\ rOut = <<>>
    /\ rOut' = [text |-> generate_values_section_text(rIn)]
    /\ UNCHANGED rIn
    /\ UNCHANGED notReport

\* error.code_block(filename, lineno) with the default window.
CodeBlock ==
    /\ rIn # <<>>
    /\ rIn.op = "code_block"
    /\ rOut = <<>>
    /\ rOut' = [lines |-> code_block(rIn.file, rIn.lineno, 8, 4)]
    /\ UNCHANGED rIn
    /\ UNCHANGED notReport

NextReport == ErrorCall \/ ValuesSection \/ CodeBlock

SpecReport == InitReport /\ [][NextReport]_vars

\* The title of a section is a line of the text.
HasTitle(text, title) == \E i \in DOMAIN text : text[i] = <<title>>

\* No span of the lines up to the failure line parses.
NoSpanParses(src) ==
    LET last == src.lineno - src.startline + 1
    IN \A i \in 1..last : ~ast_parse(SubSeq(src.sourcelines, i, last)).ok

ErrorCallDone == rIn # <<>> /\ rIn.op = "error" /\ rOut # <<>>

ErrorCallSource == SourceOf(SourceCases[rIn.fn], rIn.pad, rIn.code_context)

\* C12: when no span of source lines ending at the failure line parses,
\* error() raises nothing, the diagnostic has no records, and the report
\* has neither a values section nor an expression section.
C12_UnparsableGivesBareReport ==
    (ErrorCallDone /\ rIn.code_context /\ NoSpanParses(ErrorCallSource))
        => /\ rOut.raised = NoneVal
           /\ rOut.err.nodes = <<>>
           /\ ~HasTitle(rOut.message, "Assertion values")
           /\ ~HasTitle(rOut.message, "The following assertion was not satisfied")

ValuesSectionDone == rIn # <<>> /\ rIn.op = "values" /\ rIn.values_section /\ rOut # <<>>

\* The number of lines a value's safe representation has.
ReprLines(value) == Len(saferepr(value))

\* The number of lines the record k of rIn adds to the section.
RecordLines(k) == Len(rIn.expression) + ReprLines(rIn.nodes[k].value)

\* The index in the section of the line before the first line of record k.
RECURSIVE RecordOffset(_)
RecordOffset(k) == IF k = 1 THEN 2 ELSE RecordOffset(k - 1) + RecordLines(k - 1)

\* The caret of a record at column c under the line ln.
CaretPrefix(ln, c) ==
    <<" ", " ">> \o Spaces(IF c < 0 THEN Len(ln) - Len(lstrip(ln)) ELSE c)
        \o <<"^", " ", "i", "s", " ">>

\* C13 (as the spec states it): every record adds exactly two lines to the
\* values section, the line of the expression that holds it and a caret line.
C13_TwoLinesPerRecord ==
    ValuesSectionDone => Len(rOut.text) = 2 + 2 * Len(rIn.nodes)

\* C13 (amended): every record reprints every line of the expression in
\* order, and directly after the line of the record's position comes the
\* caret entry: spaces up to the record's column, or up to that line's own
\* indentation when the column is negative, then "^ is " and the safe
\* representation of the value, which can have several lines.
C13_WholeExpressionPerRecord ==
    ValuesSectionDone =>
        /\ Len(rOut.text) = RecordOffset(Len(rIn.nodes)) + RecordLines(Len(rIn.nodes))
        /\ \A k \in DOMAIN rIn.nodes :
              LET r == rIn.nodes[k]
                  off == RecordOffset(k)
                  caret == rOut.text[off + r.lineno + 1]
                  prefix == CaretPrefix(rIn.expression[r.lineno], r.col)
              IN /\ \A i \in DOMAIN rIn.expression :
                       rOut.text[off + i + (IF i > r.lineno THEN ReprLines(r.value) ELSE 0)]
                          = <<" ", " ">> \o rIn.expression[i]
                 /\ SubSeq(caret, 1, Len(prefix)) = prefix
                 /\ SubSeq(caret, Len(prefix) + 1, Len(caret)) = saferepr(r.value)[1]

\* A record on the second line of a three-line expression, with a negative
\* column, has been rendered.
C13_Witness ==
    /\ ValuesSectionDone
    /\ Len(rIn.expression) = 3
    /\ \E k \in DOMAIN rIn.nodes : rIn.nodes[k].lineno = 2 /\ rIn.nodes[k].col < 0
    /\ Len(rOut.text) > 2 + 2 * Len(rIn.nodes)

CodeBlockDone == rIn # <<>> /\ rIn.op = "code_block" /\ rOut # <<>>

\* The first and the last line of the window the claim gives for line l of
\* a file of n lines.
WindowFirst(l) == IF l - 8 > 1 THEN l - 8 ELSE 1

WindowLast(l, n) == IF l + 4 < n THEN l + 4 ELSE n

\* The line n of the file as the excerpt prints it with the margin given,
\* the number right-aligned to the width of the largest number.
Numbered(file, n, width, margin) ==
    Spaces(width - Len(Digits(n))) \o Digits(n) \o margin \o file[n]

\* C14: the excerpt for failure line L shows every existing line from
\* max(L-8, 1) up to and including L+4, each with its line number, and
\* line L alone has the "|>" marker in place of the "|" margin.
C14_WindowEightBeforeFourAfter ==
    CodeBlockDone =>
        LET l == rIn.lineno
            first == WindowFirst(l)
            last == WindowLast(l, Len(rIn.file))
            width == Len(Digits(l + 4))
        IN /\ Len(rOut.lines) = last - first + 1
           /\ \A k \in DOMAIN rOut.lines :
                 rOut.lines[k] =
                    Numbered(rIn.file, first + k - 1, width,
                             IF first + k - 1 = l THEN <<"|", ">", " ">>
                             ELSE <<"|", " ", " ">>)

\* ------------------------------------------------------------------------
\* Exceptions while a diagnostic is built
\* ------------------------------------------------------------------------
\* error() has been called for the failed statement and has returned or
\* raised.
ErrorReturned == epc \in {"diagnosed", "raised"}

\* The failing frame binds l to a list that holds an object whose repr
\* raises.
HoldsUnprintable ==
    /\ "l" \in DOMAIN atFailure.frame.f_locals
    /\ repr_fails(atFailure.frame.f_locals["l"])

\* C15: a value whose repr() raises never makes diagnosis fail: error()
\* completes for every failed statement over such a value.
C15_ReprFailureNeverPropagates ==
    (ErrorReturned /\ HoldsUnprintable) => epc = "diagnosed"

\* C16: constructing the diagnostic of a failed assertion raises nothing to
\* the caller, also when replay evaluates operands that the original
\* evaluation skipped.
C16_ConstructionRaisesNothing == epc # "raised"

\* ------------------------------------------------------------------------
\* The records of two replays of one statement
\* ------------------------------------------------------------------------
\* The kinds and the positions of a list of records, in order.
Positions(nodes) == [k \in DOMAIN nodes |-> <<nodes[k].kind, nodes[k].lineno, nodes[k].col>>]

\* The frames that differ from the failing one in the values of the locals
\* only.
SameFunctionFrames ==
    IF "l" \in DOMAIN atFailure.frame.f_locals
    THEN [i \in DOMAIN LValues |-> ListFrame(LValues[i])]
    ELSE <<TestFrame(0), TestFrame(1)>>

\* The statement run in frame fr: whether error() is called and returns,
\* and the records of its replay.
RunIn(fr) ==
    LET o == Eval(stmt.test, merged_scope(fr.f_globals, fr.f_locals), EmptyHeap)
    IN IF o.val.t = "Raised" \/ truthy(o.val) THEN [diagnosed |-> FALSE, nodes |-> <<>>]
       ELSE LET r == AssertEval_eval(AssertEval_init(fr), source, stmt, o.st)
            IN [diagnosed |-> r.val.t # "Raised", nodes |-> r.st.nodes]

\* C17: two replays of the same statement produce record lists of the same
\* length with the same kinds and positions in the same order, whatever
\* values the operands have in the two frames.
C17_RecordPositionsIndependentOfValues ==
    epc = "diagnosed" =>
       \A i \in DOMAIN SameFunctionFrames :
          LET other == RunIn(SameFunctionFrames[i])
          IN other.diagnosed => Positions(other.nodes) = Positions(heap.nodes)

\* A boolean operation has been replayed whose first operand decides the
\* result in this frame but not in another frame, where the statement fails
\* too, and the two replays recorded different values.
C17_Witness ==
    /\ epc = "diagnosed"
    /\ stmt.test.kind = "BoolOp"
    /\ \E i \in DOMAIN SameFunctionFrames :
          LET fr == SameFunctionFrames[i]
              other == RunIn(fr)
              env == merged_scope(fr.f_globals, fr.f_locals)
              here == merged_scope(atFailure.frame.f_globals, atFailure.frame.f_locals)
          IN /\ other.diagnosed
             /\ fr # atFailure.frame
             /\ Len(heap.nodes) >= 3
             /\ truthy(Eval(stmt.test.values[1], env, EmptyHeap).val)
                   # truthy(Eval(stmt.test.values[1], here, EmptyHeap).val)
             /\ \E k \in DOMAIN heap.nodes : other.nodes[k].value # heap.nodes[k].value

\* ------------------------------------------------------------------------
\* raises(*excs): with raises(E1, ..., En): <body>
\* ------------------------------------------------------------------------
\* Bound: the number of classes raises is called with.
MaxExcs == 2

\* The exception classes of the bodies and of the calls.
Classes ==
    {"BaseException", "Exception", "AssertionError", "ValueError", "ArithmeticError",
     "ZeroDivisionError"}

\* The class and its base classes.
ClassMro(c) ==
    CASE c = "BaseException" -> {"BaseException"}
      [] c = "Exception" -> {"Exception", "BaseException"}
      [] c = "ZeroDivisionError" ->
           {"ZeroDivisionError", "ArithmeticError", "Exception", "BaseException"}
      [] OTHER -> {c, "Exception", "BaseException"}

\* isinstance(value, classes) for an exception of class c; None is an
\* instance of none of them.
isinstance_exc(c, classes) == c # None /\ ClassMro(c) \cap classes # {}

\* type in self.excs: the tuple holds the class itself.
in_excs(type, excs) == \E i \in DOMAIN excs : excs[i] = type

\* raises.__exit__(type, value, traceback): the exception stored, and what
\* leaves the with statement: nothing (True is returned, the body's
\* exception is consumed) or an AssertionError with the description given.
raises_exit(excs, type) ==
    IF in_excs(type, excs)
    THEN [exception |-> type, raised |-> None, desc |-> None]
    ELSE IF type = None
    THEN [exception |-> None, raised |-> "AssertionError",
          desc |-> "exception %s was not raised"]
    ELSE [exception |-> None, raised |-> "AssertionError",
          desc |-> "unexpected exception %s"]

\* raises.__init__(*excs)
InitRaises ==
    /\ IdleCollector
    /\ IdleDiff
    /\ IdleEval
    /\ IdleReport
    /\ loop = <<>>
    /\ snap = <<>>
    /\ calls = <<>>
    /\ \E n \in 0..MaxExcs : \E excs \in [1..n -> Classes] :
         guard = [excs |-> excs, exception |-> None, pc |-> "init", body |-> None,
                  raised |-> None, desc |-> None]

\* raises.__enter__
RaisesEnter ==
    /\ guard # <<>>
    /\ guard.pc = "init"
    /\ guard' = [guard EXCEPT !.pc = "body"]
    /\ UNCHANGED <<loop, snap, calls>>
    /\ UNCHANGED notHelpers

\* The body of the with statement: it raises an exception of some class
\* or ends normally.
RaisesBody ==
    /\ guard # <<>>
    /\ guard.pc = "body"
    /\ \E type \in Classes \cup {None} :
         guard' = [guard EXCEPT !.pc = "exit", !.body = type]
    /\ UNCHANGED <<loop, snap, calls>>
    /\ UNCHANGED notHelpers

\* raises.__exit__
RaisesExit ==
    /\ guard # <<>>
    /\ guard.pc = "exit"
    /\ LET out == raises_exit(guard.excs, guard.body)
       IN guard' = [guard EXCEPT !.pc = "done", !.exception = out.exception,
                                 !.raised = out.raised, !.desc = out.desc]
    /\ UNCHANGED <<loop, snap, calls>>
    /\ UNCHANGED notHelpers

NextRaises == RaisesEnter \/ RaisesBody \/ RaisesExit

SpecRaises == InitRaises /\ [][NextRaises]_vars

\* C18: raises(E1, ..., En) has exactly three outcomes: a body exception
\* that is an instance of an expected class is consumed and stored in
\* .exception; a body that raises nothing gives an AssertionError
\* "exception ... was not raised"; any other body exception gives an
\* AssertionError "unexpected exception ..." in its place.
C18_ThreeOutcomes ==
    (guard # <<>> /\ guard.pc = "done") =>
        IF isinstance_exc(guard.body, {guard.excs[i] : i \in DOMAIN guard.excs})
        THEN guard.raised = None /\ guard.exception = guard.body
        ELSE IF guard.body = None
        THEN /\ guard.raised = "AssertionError"
             /\ guard.desc = "exception %s was not raised"
        ELSE /\ guard.raised = "AssertionError"
             /\ guard.desc = "unexpected exception %s"

\* ------------------------------------------------------------------------
\* retries(...): for retry in retries(...): with retry: <body>
\* ------------------------------------------------------------------------
\* Bounds: the timeout and the delay in seconds, the number of seconds a
\* body takes, and the number of attempts after which a body no longer
\* raises an expected exception.
MaxTimeout == 2
MaxDelay == 1
MaxBodyTime == 1
MaxAttempts == 3

\* The clock when the loop starts: time.time() is a positive number.
StartTime == 1

Maximum(a, b) == IF a >= b THEN a ELSE b

Minimum(a, b) == IF a <= b THEN a ELSE b

\* A number that can be None: <<>> is None, <<n>> the number n.
Nothing == <<>>

Some(n) == <<n>>

\* retries.__init__(*exceptions, timeout, delay, backoff, jitter)
retries_init(exceptions, timeout, delay, backoff, jitter) ==
    [exceptions |-> IF exceptions = {} THEN {"Exception"} ELSE exceptions,
     timeout |-> timeout,
     delay |-> delay,
     backoff |-> backoff,
     jitter |-> jitter,
     delay_with_backoff |-> delay,
     caught_exception |-> None,
     stop |-> FALSE,
     started |-> Nothing,
     number |-> -1]

\* retries.__iter__
retries_iter(self) ==
    [self EXCEPT !.stop = FALSE, !.delay_with_backoff = self.delay, !.number = -1,
                 !.caught_exception = None, !.started = Nothing]

\* retries.__next__ at time now, random.uniform(*self.jitter) giving u: the
\* object after the call, what the call did (it returned self, or raised
\* StopIteration, the caught exception or a TypeError), and the time after
\* it.
retries_next(self, now, u) ==
    IF self.stop THEN [self |-> self, did |-> "StopIteration", raised |-> None, now |-> now]
    ELSE LET sleeps == self.started # Nothing /\ self.delay_with_backoff # 0
             backed == IF sleeps /\ self.backoff # 0
                       THEN [self EXCEPT !.delay_with_backoff = @ * self.backoff]
                       ELSE self
             delay == Minimum(backed.delay_with_backoff + u,
                              Maximum(0, self.timeout[1] - (now - self.started[1])))
             after == IF sleeps THEN now + delay ELSE now
         IN IF sleeps /\ self.timeout = Nothing
            THEN [self |-> backed, did |-> "raise", raised |-> "TypeError", now |-> now]
            ELSE IF /\ self.started # Nothing
                    /\ self.timeout # Nothing
                    /\ after - self.started[1] >= self.timeout[1]
            THEN [self |-> backed, did |-> "raise", raised |-> self.caught_exception,
                  now |-> after]
            ELSE [self |-> [backed EXCEPT
                              !.started = IF self.started = Nothing THEN Some(after) ELSE @,
                              !.number = @ + 1],
                  did |-> "return", raised |-> None, now |-> after]

\* retries.__exit__(exc_type, exc_value, exc_tb): the object after the
\* call and whether the exception is suppressed.
retries_exit(self, exc_value) ==
    LET caught == [self EXCEPT !.caught_exception = exc_value]
    IN IF isinstance_exc(exc_value, self.exceptions)
       THEN [self |-> caught, suppress |-> TRUE]
       ELSE [self |-> [caught EXCEPT !.stop = TRUE], suppress |-> FALSE]

\* retries(...) has been constructed. pc is the place of the loop, now the
\* clock, exc the exception of the body that has just run, attempts the
\* number of bodies run, ending how the loop ended and raised what it
\* raised to its caller.
InitRetries ==
    /\ IdleCollector
    /\ IdleDiff
    /\ IdleEval
    /\ IdleReport
    /\ guard = <<>>
    /\ snap = <<>>
    /\ calls = <<>>
    /\ \E exceptions \in {{}, {"ArithmeticError"}},
          timeout \in {Nothing} \cup {Some(t) : t \in 0..MaxTimeout},
          delay \in 0..MaxDelay,
          backoff \in 0..2,
          jitter \in {<<0, 0>>, <<0, 1>>} :
         loop = [self |-> retries_init(exceptions, timeout, delay, backoff, jitter),
                 pc |-> "iter", now |-> StartTime, exc |-> None, attempts |-> 0,
                 numbers |-> <<>>, ending |-> None, raised |-> None]

\* for retry in ...: iter() on the object
RetriesIter ==
    /\ loop # <<>>
    /\ loop.pc = "iter"
    /\ loop' = [loop EXCEPT !.self = retries_iter(@), !.pc = "next"]
    /\ UNCHANGED <<guard, snap, calls>>
    /\ UNCHANGED notHelpers

\* The for statement asks for the next item: retries.__next__
RetriesNext ==
    /\ loop # <<>>
    /\ loop.pc = "next"
    /\ \E u \in loop.self.jitter[1]..loop.self.jitter[2] :
         LET r == retries_next(loop.self, loop.now, u)
         IN loop' = [loop EXCEPT
                       !.self = r.self,
                       !.now = r.now,
                       !.pc = IF r.did = "return" THEN "body" ELSE "done",
                       !.ending = CASE r.did = "return" -> None
                                    [] r.did = "StopIteration" -> "exhausted"
                                    [] OTHER -> "raised by next",
                       !.raised = r.raised]
    /\ UNCHANGED <<guard, snap, calls>>
    /\ UNCHANGED notHelpers

\* with retry: <body>: __enter__, then the body takes some time and raises
\* an exception or none.
RetriesBody ==
    /\ loop # <<>>
    /\ loop.pc = "body"
    /\ \E exc \in {None, "ZeroDivisionError", "ValueError", "BaseException"},
          took \in 0..MaxBodyTime :
         /\ isinstance_exc(exc, loop.self.exceptions) => loop.attempts + 1 < MaxAttempts
         /\ loop' = [loop EXCEPT !.pc = "exit", !.exc = exc, !.now = @ + took,
                                 !.attempts = @ + 1,
                                 !.numbers = Append(@, loop.self.number)]
    /\ UNCHANGED <<guard, snap, calls>>
    /\ UNCHANGED notHelpers

\* The with statement ends: retries.__exit__; an exception that is not
\* suppressed leaves the loop.
RetriesExit ==
    /\ loop # <<>>
    /\ loop.pc = "exit"
    /\ LET r == retries_exit(loop.self, loop.exc)
       IN loop' = [loop EXCEPT
                     !.self = r.self,
                     !.pc = IF r.suppress \/ loop.exc = None THEN "next" ELSE "done",
                     !.ending = IF r.suppress \/ loop.exc = None THEN None
                                ELSE "raised by body",
                     !.raised = IF r.suppress THEN None ELSE loop.exc]
    /\ UNCHANGED <<guard, snap, calls>>
    /\ UNCHANGED notHelpers

NextRetries == RetriesIter \/ RetriesNext \/ RetriesBody \/ RetriesExit

SpecRetries == InitRetries /\ [][NextRetries]_vars

RetriesDone == loop # <<>> /\ loop.pc = "done"

\* The body that ran last raised an exception of the expected set.
LastExpected == isinstance_exc(loop.exc, loop.self.exceptions)

\* C19: the loop makes at least one attempt and ends in one of three ways:
\* after the first attempt that raises nothing, with no further attempt; by
\* the exception of an attempt that is outside the expected set; or, once
\* the timeout has elapsed since the first attempt started, by the last
\* caught expected exception raised by the next iteration. Every attempt
\* before that raises an expected exception and is followed by another, and
\* .number counts the attempts 0, 1, 2, ...
C19_ThreeWaysToEnd ==
    /\ RetriesDone =>
          /\ loop.attempts >= 1
          /\ \/ loop.ending = "exhausted" /\ loop.exc = None
             \/ /\ loop.ending = "raised by body"
                /\ loop.exc # None
                /\ ~LastExpected
                /\ loop.raised = loop.exc
             \/ /\ loop.ending = "raised by next"
                /\ loop.self.timeout # Nothing
                /\ loop.now - loop.self.started[1] >= loop.self.timeout[1]
                /\ LastExpected
                /\ loop.raised = loop.exc
    /\ (loop # <<>>) => loop.numbers = [k \in 1..loop.attempts |-> k - 1]

\* C20: with timeout=None the loop has no time limit and raises no error
\* of its own: every attempt that fails with an expected exception is
\* followed by a further attempt, and the loop ends only after a success or
\* by an unexpected exception of the body.
C20_NoTimeoutNoLimit ==
    (loop # <<>> /\ loop.self.timeout = Nothing) =>
        /\ loop.ending \in {None, "exhausted", "raised by body"}
        /\ loop.raised # "TypeError"

\* ------------------------------------------------------------------------
\* snapshot(value, id, name=..., encoder=...): the snapshot file
\* ------------------------------------------------------------------------
\* A representation is a text: a sequence of characters. A snapshot file is
\* a text too, with the name of a snapshot kept as one token.
Quote == "\""

Backslash == "\\"

Triple == <<Quote, Quote, Quote>>

\* The text  """ + '"""' + r"""  that takes the place of a triple quote.
TripleEscape ==
    Triple \o <<" ", "+", " ", "'">> \o Triple \o <<"'", " ", "+", " ", "r">> \o Triple

\* repr_value.replace('"""', '""" + \'"""\' + r"""'): the occurrences are
\* replaced from the left, each after the end of the one before.
RECURSIVE replace_triple(_)
replace_triple(text) ==
    IF Len(text) < 3 THEN text
    ELSE IF SubSeq(text, 1, 3) = Triple
    THEN TripleEscape \o replace_triple(SubSeq(text, 4, Len(text)))
    ELSE <<text[1]>> \o replace_triple(Tail(text))

\* fd.write(f'{name} = r"""{repr_value}"""\n\n') after the replacement
snapshot_entry(name, repr_value) ==
    <<name, " ", "=", " ", "r">> \o Triple \o replace_triple(repr_value)
        \o Triple \o <<"\n", "\n">>

\* The end of a raw triple-quoted string whose content starts at text[i]:
\* the index of the first character of the closing quotes, 0 when the
\* string is not closed. A backslash goes with the character after it.
RECURSIVE raw_string_end(_, _)
raw_string_end(text, i) ==
    IF i + 2 > Len(text) THEN 0
    ELSE IF text[i] = Backslash THEN raw_string_end(text, i + 2)
    ELSE IF SubSeq(text, i, i + 2) = Triple THEN i
    ELSE raw_string_end(text, i + 1)

\* The end of a string in single quotes q whose content starts at text[i]:
\* the index of the closing quote, 0 when the line ends first.
RECURSIVE plain_string_end(_, _, _)
plain_string_end(text, i, q) ==
    IF i > Len(text) \/ text[i] = "\n" THEN 0
    ELSE IF text[i] = Backslash THEN plain_string_end(text, i + 2, q)
    ELSE IF text[i] = q THEN i
    ELSE plain_string_end(text, i + 1, q)

\* The value of the content of a string that is not raw: a backslash and
\* the character after it stand for one character (or for none, before a
\* line end).
RECURSIVE unescape(_)
unescape(content) ==
    IF content = <<>> THEN <<>>
    ELSE IF content[1] = Backslash /\ Len(content) >= 2
    THEN LET c == content[2]
             one == CASE c \in {Backslash, Quote, "'"} -> <<c>>
                      [] c = "a" -> <<"BEL">>
                      [] c = "\n" -> <<>>
                      [] OTHER -> <<Backslash, c>>
         IN one \o unescape(SubSeq(content, 3, Len(content)))
    ELSE <<content[1]>> \o unescape(Tail(content))

\* The expression of an assignment from text[i] on, a string having just
\* ended: the line ends, or another string follows (adjacent strings are
\* concatenated, as are the operands of +). The result is the value and the
\* index after the line end, or ok = FALSE for a SyntaxError.
RECURSIVE parse_strings(_, _, _, _)
parse_strings(text, i, acc, expect) ==
    LET bad == [ok |-> FALSE, value |-> <<>>, next |-> 0]
        at(k) == IF i + k <= Len(text) THEN text[i + k] ELSE "eof"
    IN CASE expect = "operand or end" /\ at(0) = "\n" ->
              [ok |-> TRUE, value |-> acc, next |-> i + 1]
         [] expect = "operand or end" /\ at(0) = " " /\ at(1) = "+" /\ at(2) = " " ->
              parse_strings(text, i + 3, acc, "operand")
         [] at(0) = "r" /\ SubSeq(text, i + 1, i + 3) = Triple ->
              LET e == raw_string_end(text, i + 4)
              IN IF e = 0 THEN bad
                 ELSE parse_strings(text, e + 3, acc \o SubSeq(text, i + 4, e - 1),
                                    "operand or end")
         [] at(0) \in {Quote, "'"} /\ SubSeq(text, i, i + 2) # Triple
               /\ SubSeq(text, i, i + 2) # <<"'", "'", "'">> ->
              LET e == plain_string_end(text, i + 1, at(0))
                  content == SubSeq(text, i + 1, e - 1)
              IN IF e = 0 THEN bad
                 ELSE parse_strings(text, e + 1, acc \o unescape(content), "operand or end")
         [] OTHER -> bad

\* exec of the file's text from text[i] on in the namespace ns (a function
\* from names to values): name = expression lines with blank lines between
\* them. ok = FALSE for a SyntaxError, which leaves the namespace as it was.
RECURSIVE exec_file(_, _, _, _)
exec_file(text, i, ns, names) ==
    IF i > Len(text) THEN [ok |-> TRUE, ns |-> ns]
    ELSE IF text[i] = "\n" THEN exec_file(text, i + 1, ns, names)
    ELSE IF text[i] \in names /\ SubSeq(text, i + 1, i + 3) = <<" ", "=", " ">>
    THEN LET r == parse_strings(text, i + 4, <<>>, "operand")
         IN IF r.ok
            THEN exec_file(text, r.next,
                           [k \in DOMAIN ns \cup {text[i]} |->
                               IF k = text[i] THEN r.value ELSE ns[k]], names)
            ELSE [ok |-> FALSE, ns |-> ns]
    ELSE [ok |-> FALSE, ns |-> ns]

\* snapshot(value, id, name=name, encoder=str) with the snapshot files and
\* the namespace of the module "snapshot" as they are. load_module()
\* executes the file in the module that an earlier call has loaded, when
\* there is one: the names of that module stay. The result is what the
\* call returns or raises, with the files and the namespace after it.
snapshot_call(files, module, id, name, repr_value, names) ==
    LET loaded == exec_file(files[id], 1, module, names)
        stored == [result |-> "True", module |-> module,
                   files |-> [files EXCEPT ![id] = @ \o snapshot_entry(name, repr_value)]]
    IN IF files[id] = <<>> THEN stored
       ELSE IF ~loaded.ok
       THEN [result |-> "SyntaxError", module |-> module, files |-> files]
       ELSE IF name \in DOMAIN loaded.ns
       THEN [result |-> IF loaded.ns[name] = repr_value THEN "True" ELSE "SnapshotError",
             module |-> loaded.ns, files |-> files]
       ELSE [stored EXCEPT !.module = loaded.ns]

\* Bounds: the length of a representation, the number of snapshot files
\* and the number of calls.
MaxReprLen == 4
MaxFiles == 2
MaxCalls == 4

\* The characters of the representations.
ReprChars == {"a", Quote, Backslash}

\* The names of the snapshots.
SnapshotNames == {"first", "second"}

\* No snapshot file exists and no module is loaded. v0 is the
\* representation the calls are about; first holds, for every file and
\* name, the representation of the first call made for them.
InitSnapshot ==
    /\ IdleCollector
    /\ IdleDiff
    /\ IdleEval
    /\ IdleReport
    /\ guard = <<>>
    /\ loop = <<>>
    /\ calls = <<>>
    /\ \E v0 \in SeqsUpTo(ReprChars, MaxReprLen) :
         snap = [files |-> [id \in 1..MaxFiles |-> <<>>],
                 module |-> <<>>,
                 v0 |-> v0,
                 first |-> [id \in 1..MaxFiles |-> [n \in SnapshotNames |-> <<>>]],
                 made |-> 0,
                 last |-> <<>>]

\* One call of snapshot: for a file and a name, with the representation v0
\* or another one. Long representations go to the first file, in one call
\* less.
SnapshotCall ==
    /\ snap # <<>>
    /\ snap.made < (IF Len(snap.v0) <= 1 THEN MaxCalls ELSE MaxCalls - 1)
    /\ \E id \in 1..(IF Len(snap.v0) <= 1 THEN MaxFiles ELSE 1),
          name \in SnapshotNames,
          value \in {snap.v0, <<"a", "a">>} :
         LET r == snapshot_call(snap.files, snap.module, id, name, value, SnapshotNames)
         IN snap' = [snap EXCEPT
                       !.files = r.files,
                       !.module = r.module,
                       !.made = @ + 1,
                       !.first[id][name] = IF @ = <<>> /\ r.result = "True"
                                           THEN <<value>> ELSE @,
                       !.last = [id |-> id, name |-> name, value |-> value,
                                 result |-> r.result,
                                 before |-> snap.first[id][name],
                                 files |-> snap.files]]
    /\ UNCHANGED <<guard, loop, calls>>
    /\ UNCHANGED notHelpers

NextSnapshot == SnapshotCall

SpecSnapshot == InitSnapshot /\ [][NextSnapshot]_vars

\* C21: the first call for a file and a name stores the representation and
\* returns True; every later call for them returns True when the
\* representation equals the stored one and a SnapshotError otherwise, and
\* leaves the files as they are. So store-then-compare of one value returns
\* True for every representation, and a second name stored in the file
\* leaves the first one retrievable.
C21_StoreThenCompare ==
    (snap # <<>> /\ snap.last # <<>>) =>
        LET l == snap.last
        IN IF l.before = <<>>
           THEN /\ l.result = "True"
                /\ snap.files[l.id] = l.files[l.id] \o snapshot_entry(l.name, l.value)
           ELSE /\ l.result = IF l.value = l.before[1] THEN "True" ELSE "SnapshotError"
                /\ snap.files = l.files

\* ------------------------------------------------------------------------
\* Chained comparisons
\* ------------------------------------------------------------------------
\* The statement is "assert a op1 b op2 c ..., error()" with two operators
\* or more, its operands numbers and names.
IsChainedComparison ==
    /\ stmt # <<>>
    /\ stmt.test.kind = "Compare"
    /\ Len(stmt.test.ops) >= 2

\* The operands of the chained comparison, left to right, and their values
\* in the frame.
ChainedOperand(i) == IF i = 0 THEN stmt.test.left ELSE stmt.test.comparators[i]

ChainedValue(i) ==
    Eval(ChainedOperand(i), merged_scope(frame.f_globals, frame.f_locals), EmptyHeap).val

\* (operand i-1) op_i (operand i), from the operand values.
Pairwise(i) == compare_ops(stmt.test.ops[i], ChainedValue(i - 1), ChainedValue(i))

\* The records of the results of the comparison operators, in the order
\* they were made.
CompareRecords ==
    SelectSeq(heap.nodes, LAMBDA rec : rec.kind \in {"Lt", "Eq", "NotEq", "Is"})

\* C22: the replay of a chained comparison gives the conjunction of the
\* pairwise results (a op1 b), (b op2 c), ..., each computed from the
\* operand values; for every operator it records the right operand, when
\* that is a name, and then the pairwise result, wrapped, at the operator.
C22_PairwiseConjunction ==
    epc = "diagnosed" /\ IsChainedComparison =>
        LET n == Len(stmt.test.ops)
        IN /\ heap.nodes[Len(heap.nodes)].value
                 = BoolVal(\A i \in 1..n : truthy(Pairwise(i)))
           /\ Len(CompareRecords) = n
           /\ \A i \in 1..n :
                 /\ CompareRecords[i].value.t \in {"FuncResult", "DiffResult"}
                 /\ CompareRecords[i].kind = stmt.test.ops[i]
                 /\ CompareRecords[i].col < ChainedOperand(i).col
                 /\ truthy(CompareRecords[i].value.v[1]) = truthy(Pairwise(i))
                 /\ ChainedOperand(i).kind = "Name" =>
                       \E k \in RecordsAt("Name", ChainedOperand(i).col) :
                           heap.nodes[k].value = ChainedValue(i)

\* ------------------------------------------------------------------------
\* The span of source lines the replay works on
\* ------------------------------------------------------------------------
\* The first lines of the spans that end at the failure line and parse.
ParsingStarts(src) ==
    LET last == src.lineno - src.startline + 1
    IN {i \in 1..last : ast_parse(SubSeq(src.sourcelines, i, last)).ok}

\* The shortest span that ends at the failure line and parses.
ShortestSpan(src) ==
    LET last == src.lineno - src.startline + 1
        S == ParsingStarts(src)
    IN SubSeq(src.sourcelines, CHOOSE i \in S : \A j \in S : j <= i, last)

\* C23: when a span of lines ending at the failure line parses, the
\* expression of the diagnostic is the shortest such span; no longer span
\* is taken, although one parses too. (When error() raises instead, the
\* tree it replayed is the one of the shortest span, a bare expression.)
C23_ShortestParsingSuffix ==
    (ErrorCallDone /\ rIn.code_context /\ ~NoSpanParses(ErrorCallSource)) =>
        LET span == ShortestSpan(ErrorCallSource)
        IN IF rOut.raised = NoneVal
           THEN rOut.err.expression = dedent_strip(span)
           ELSE ast_parse(span).tree.kind = "Expr"

\* The one-line assert: the line alone parses, the line with the statement
\* before it parses, the whole function parses; the expression is the line.
C23_Witness ==
    /\ ErrorCallDone
    /\ rIn.code_context
    /\ rOut.raised = NoneVal
    /\ Cardinality(ParsingStarts(ErrorCallSource)) = 3
    /\ rOut.err.expression = <<OneLineAssert.text>>

\* ------------------------------------------------------------------------
\* The callee of a call
\* ------------------------------------------------------------------------
\* The call of len or nope in the statement, when it has one: the test
\* itself, the second operand of a boolean operation, or the left operand
\* of a comparison.
CalleeCalls ==
    LET t == stmt.test
        cands == CASE t.kind = "Call" -> {t}
                   [] t.kind = "BoolOp" -> {t.values[i] : i \in DOMAIN t.values}
                   [] t.kind = "Compare" -> {t.left}
                   [] OTHER -> {}
    IN {c \in cands : c.kind = "Call" /\ c.func \in CalleeNames}

\* What Python calls for the name: the local binding, else the global one,
\* else the built-in.
Resolved(name) == load_name(merged_scope(frame.f_globals, frame.f_locals), name)

\* C24: the replay of a call resolves the callee's name in the local
\* bindings, then the global bindings, then the built-ins, so the call's
\* record holds what the function Python calls for that name returns; for
\* a name bound in none of them error() raises NameError.
C24_CalleeResolution ==
    (epc \in {"diagnosed", "raised"} /\ stmt # <<>>) =>
        \A c \in CalleeCalls :
            IF Resolved(c.func).t = "Raised"
            THEN epc = "raised" /\ thrown = <<Raised("NameError")>>
            ELSE /\ epc = "diagnosed"
                 /\ \E k \in RecordsAt("Call", c.col) :
                       heap.nodes[k].value
                          = FuncResult(call_func(Resolved(c.func),
                               <<Eval(c.args[1], frame.f_locals, EmptyHeap).val>>,
                               <<>>, EmptyHeap).val)

\* ------------------------------------------------------------------------
\* The position of an operator
\* ------------------------------------------------------------------------
RECURSIVE OperatorPairs(_)
RECURSIVE OperatorPairsIn(_)

\* The operators of the tree n that _find_operator is asked for, each with
\* its right operand.
OperatorPairs(n) ==
    (CASE n.kind = "BinOp" -> {<<n.op, n.right>>}
       [] n.kind = "BoolOp" -> {<<n.op, n.values[i]>> : i \in 2..Len(n.values)}
       [] n.kind = "Compare" -> {<<n.ops[i], n.comparators[i]>> : i \in DOMAIN n.ops}
       [] OTHER -> {})
        \cup OperatorPairsIn(Children(n))

OperatorPairsIn(ns) ==
    IF ns = <<>> THEN {} ELSE OperatorPairs(ns[1]) \cup OperatorPairsIn(Tail(ns))

\* C27: the position recorded for a binary, boolean or comparison operator
\* is (1, -1) or lies strictly before the operator's right operand, on an
\* earlier line or on the same line at a smaller column.
C27_OperatorBeforeRightOperand ==
    epc = "diagnosed" =>
        \A p \in OperatorPairs(stmt) :
            LET right == p[2]
                at == find_operator(source, p[1], right.lineno, right.col)
            IN /\ \E k \in DOMAIN heap.nodes :
                     /\ heap.nodes[k].kind = p[1]
                     /\ heap.nodes[k].lineno = at.lineno
                     /\ heap.nodes[k].col = at.col
               /\ \/ at.lineno = 1 /\ at.col = -1
                  \/ at.lineno < right.lineno
                  \/ at.lineno = right.lineno /\ at.col < right.col

\* ------------------------------------------------------------------------
\* The value a cell call site yields in the replay
\* ------------------------------------------------------------------------
\* The entries of heap.yielded that the failed check made.
OriginalCalls == 1..Len(atFailure.heap.yielded)

\* The entries of heap.yielded that the replay made.
ReplayCalls == (Len(atFailure.heap.yielded) + 1)..Len(heap.yielded)

\* C26: every cell call of the replay yields the value the call at the same
\* place of the statement captured in the failed check, or None when the
\* check did not execute that call; also where the check skipped calls by
\* short-circuit and where the replay visits the calls in another order
\* (conditional expression).
C26_CallSiteYieldsOwnValue ==
    epc = "diagnosed" =>
        \A k \in ReplayCalls :
            LET own == {j \in OriginalCalls : heap.sites[j] = heap.sites[k]}
            IN IF own = {} THEN heap.yielded[k] = NoneVal
               ELSE \E j \in own : heap.yielded[k] = heap.yielded[j]

\* ------------------------------------------------------------------------
\* The truth value of the replay
\* ------------------------------------------------------------------------
RECURSIVE ImpureCalls(_)
RECURSIVE ImpureCallsIn(_)

\* The number of calls in the tree n of the cell or of foo, which appends
\* to the caller's list.
ImpureCalls(n) ==
    (IF n.kind = "Call" /\ n.func \in {"that", "foo"} THEN 1 ELSE 0)
        + ImpureCallsIn(Children(n))

ImpureCallsIn(ns) ==
    IF ns = <<>> THEN 0 ELSE ImpureCalls(ns[1]) + ImpureCallsIn(Tail(ns))

\* C25: for a statement without side effects the last evaluation record is
\* the one of the assert statement and its value is the truth value of the
\* check, which is False since the check failed.
C25_ReplayTruthValue ==
    (epc = "diagnosed" /\ ImpureCalls(stmt) = 0) =>
        LET final == heap.nodes[Len(heap.nodes)]
        IN /\ final.kind = "Assert"
           /\ final.value = BoolVal(FALSE)

\* C28: the failure line belongs to an assert statement; the span the
\* locator accepts is that assert statement, never a part of it that
\* parses as a statement of another kind, and the replay does not raise
\* "not called from the assert statement".
C28_AcceptedSpanIsTheAssert ==
    (ErrorCallDone /\ rIn.code_context /\ ~NoSpanParses(ErrorCallSource)) =>
        /\ ast_parse(ShortestSpan(ErrorCallSource)).tree.kind = "Assert"
        /\ rOut.raised # Raised("RuntimeError")

\* ------------------------------------------------------------------------
\* The collector after its with-block
\* ------------------------------------------------------------------------
\* C29: after the with-block of the collector has exited the list of
\* collected failures does not change and a soft scope does not suppress
\* an assertion failure; while the with-block runs the list only grows at
\* its end.
C29_ClosedCollectorRejects ==
    [][/\ pc \in {"closed", "after"} =>
            /\ errors' = errors
            /\ history' # history => ~history'[Len(history')].suppressed
       /\ pc \in {"body", "raising"} => IsPrefix(errors, errors')]_vars

\* ------------------------------------------------------------------------
\* retry(...): a function wrapped by the decorator
\* ------------------------------------------------------------------------
\* Bounds: the calls of the wrapped function that are in progress together,
\* and the attempts of one call.
MaxCallers == 2
MaxTries == 2

\* retry.__init__(*exceptions, timeout, delay, backoff=0, jitter): the one
\* retries object of the decorator.
retry_init(exceptions, timeout, delay) ==
    retries_init(exceptions, timeout, delay, 0, <<0, 0>>)

\* A call of the wrapper: where it is ("idle" before the call, "next" at
\* the head of the for loop, "body" while func runs, "exit" when func has
\* ended, "returned", "raised"), how func ended in the last attempt (exc,
\* None for a return), the attempts made, and what the wrapper returned.
IdleCaller == [pc |-> "idle", exc |-> None, tries |-> 0, returned |-> None]

\* The decorator has been applied to func; no call is in progress.
InitRetry ==
    /\ IdleCollector
    /\ IdleDiff
    /\ IdleEval
    /\ IdleReport
    /\ guard = <<>>
    /\ loop = <<>>
    /\ snap = <<>>
    /\ \E exceptions \in {{}, {"ArithmeticError"}},
          timeout \in {Nothing} \cup {Some(t) : t \in 1..MaxTimeout},
          delay \in 0..MaxDelay :
         calls = [self |-> retry_init(exceptions, timeout, delay),
                  now |-> StartTime,
                  callers |-> [c \in 1..MaxCallers |-> IdleCaller]]

\* wrapper(*args, **kwargs) is called: "for _retry in self.retries" takes
\* iter() of the shared object, which resets it.
RetryCall(c) ==
    /\ calls # <<>>
    /\ calls.callers[c].pc = "idle"
    /\ calls' = [calls EXCEPT !.self = retries_iter(@), !.callers[c].pc = "next"]
    /\ UNCHANGED <<guard, loop, snap>>
    /\ UNCHANGED notHelpers

\* The for statement of the call asks for the next item. StopIteration
\* ends the loop: the wrapper falls off its end and returns None.
RetryNext(c) ==
    /\ calls # <<>>
    /\ calls.callers[c].pc = "next"
    /\ LET r == retries_next(calls.self, calls.now, 0)
       IN calls' = [calls EXCEPT
                      !.self = r.self,
                      !.now = r.now,
                      !.callers[c].pc = CASE r.did = "return" -> "body"
                                          [] r.did = "StopIteration" -> "returned"
                                          [] OTHER -> "raised",
                      !.callers[c].returned = IF r.did = "StopIteration" THEN "None"
                                              ELSE @]
    /\ UNCHANGED <<guard, loop, snap>>
    /\ UNCHANGED notHelpers

\* with _retry: return func(*args, **kwargs): func takes some time and
\* returns a value (exc is None) or raises.
RetryBody(c) ==
    /\ calls # <<>>
    /\ calls.callers[c].pc = "body"
    /\ \E exc \in {None, "ZeroDivisionError", "ValueError"}, took \in 0..MaxBodyTime :
         /\ exc # None => calls.callers[c].tries + 1 < MaxTries
         /\ calls' = [calls EXCEPT !.now = @ + took,
                                   !.callers[c].pc = "exit",
                                   !.callers[c].exc = exc,
                                   !.callers[c].tries = @ + 1]
    /\ UNCHANGED <<guard, loop, snap>>
    /\ UNCHANGED notHelpers

\* The with statement of the call ends: retries.__exit__ on the shared
\* object; after a return of func the wrapper returns func's value, an
\* exception that is suppressed leads to the next round, another one leaves
\* the wrapper.
RetryExit(c) ==
    /\ calls # <<>>
    /\ calls.callers[c].pc = "exit"
    /\ LET exc == calls.callers[c].exc
           r == retries_exit(calls.self, exc)
       IN calls' = [calls EXCEPT
                      !.self = r.self,
                      !.callers[c].pc = IF exc = None THEN "returned"
                                        ELSE IF r.suppress THEN "next"
                                        ELSE "raised",
                      !.callers[c].returned = IF exc = None THEN "value" ELSE @]
    /\ UNCHANGED <<guard, loop, snap>>
    /\ UNCHANGED notHelpers

NextRetry ==
    \E c \in 1..MaxCallers :
        \/ RetryCall(c)
        \/ RetryNext(c)
        \/ RetryBody(c)
        \/ RetryExit(c)

SpecRetry == InitRetry /\ [][NextRetry]_vars

\* C30: a call of the wrapped function that returns returns the value of an
\* attempt that ended without an exception; it never returns None after
\* attempts that all failed or without one, whatever the other calls of the
\* function do in the meantime.
C30_ReturnsOnlyAfterSuccess ==
    calls # <<>> =>
        \A c \in 1..MaxCallers :
            calls.callers[c].pc = "returned" =>
                /\ calls.callers[c].returned = "value"
                /\ calls.callers[c].exc = None
                /\ calls.callers[c].tries > 0

====
